---------------------------- MODULE Spec2Model ----------------------------
(***************************************************************************)
(* A model of the incremental global scan engine of osu-scan               *)
(* (src/scan_logic.py): the scan cache, the deep-fetch worker pool, the    *)
(* aggregation of the four counters and the token manager; and of the      *)
(* pieces it is built from: one deep-fetch call, the corpus search, the    *)
(* per-user listing fetchers (also those of src/gder_logic.py) and the     *)
(* per-user scan functions with their cancel flag.                         *)
(*                                                                         *)
(* Conventions                                                             *)
(*   - a date string 'YYYY-MM-DD' is a natural number >= 1 ordered as the  *)
(*     strings are ordered; the empty string / None is 0 (falsy in Python) *)
(*   - a Python dict is a function whose DOMAIN is the dict's key set      *)
(*   - a user id None / missing is 0 (falsy in Python)                     *)
(*   - a JSON object key is a sequence of one-character strings            *)
(***************************************************************************)
EXTENDS Integers, Sequences, FiniteSets, TLC

VARIABLES
    \* ---- the upstream service and the disk
    corpus,            \* ids of the sets the corpus search returns
    file,              \* contents of LEADERBOARD_CACHE_FILE
    \* ---- global_bn_duo_scan: the coordinating thread
    pc,                \* "idle" | "main" | "retry" | "save"
    runs,              \* number of scan runs started
    result,            \* what the last call of global_bn_duo_scan returned
    scanned_ids,
    pair_counts,
    individual_counts,
    gd_counts,
    host_counts,
    user_modes,
    new_sets,
    failed_sets,
    \* ---- the two thread pools
    future_to_set,     \* main pass: set id -> "running" | "ok" | "fail"
    collected,         \* main-pass futures already yielded by as_completed
    retry_futures,     \* retry pass: set id -> "running" | "ok" | "fail"
    retry_collected,
    \* ---- history variables (not program state)
    applied,           \* set id -> how often each contribution was added
    loaded_ids,        \* scanned_ids as loaded at the start of the run
    start_counts,      \* the counters when the main pool was submitted
    prev_file,         \* the cache file at the start of the run
    prev_sets,         \* the corpus the previous run saw
    cur_sets,          \* the corpus this run saw
    carried,           \* sets that failed both passes of the previous run
    saves,             \* number of cache writes of the current run
    merge_order,       \* the sets merged in this run, in merge order
    fetches,           \* set id -> deep-fetches of the set finished in this run
    token_lost,        \* a worker's get_token returned None in this run
    lb_file,           \* contents of LEADERBOARD_FILE, the snapshot
    prev_lb,           \* history: the snapshot at the start of the run
    \* ---- TokenManager and the workers that use it concurrently
    tm_token,          \* _token_manager.token (0 is None)
    tm_expires_at,     \* _token_manager.expires_at
    now,               \* time.time()
    issued,            \* OAuth server: issue time of token 1, 2, ...
    wpc,               \* worker -> position in process_nominator_set
    wnow,              \* worker -> local `now` of its get_token call
    wtoken,            \* worker -> token it holds
    wrefreshed,        \* worker -> has taken the 401 branch
    \* ---- _load_cache checked as a function
    lc_file,           \* the file _load_cache is applied to
    lc_out,            \* [done |-> FALSE], then the outcome of _load_cache
    \* ---- one call of process_nominator_set, request by request
    f_set,             \* the id of bset (0 before the call)
    f_pc,              \* position in the function
    f_log,             \* "detail" | "refresh" | "events", in the order issued
    f_resp,            \* the responses to the detail requests
    f_ev,              \* the responses to the events requests
    f_body,            \* the body of the 200 detail response
    f_ret,             \* [done |-> FALSE], then the returned tuple
    \* ---- one call of a per-user listing fetcher against a scripted endpoint
    p_fetcher,         \* which fetcher runs
    p_script,          \* what the endpoint will answer
    p_type,            \* index of s_type in set_types
    p_offset,
    p_all,             \* all_sets
    p_reqs,            \* the requests issued: <<type index, offset>>
    p_pc,              \* "loop" | "returned" | "raised"
    \* ---- one call of search_ranked_beatmapsets
    s_status,          \* index of status in the list of four
    s_page,
    s_cursor,          \* cursor_string (0 is None)
    s_all,             \* ids of all_sets, in order
    s_reqs,            \* page requests issued for the status last searched
    s_pc,              \* "loop" | "returned"
    \* ---- one call of a per-user scan function
    u_fn,              \* which generate_*_for_user runs
    u_pc,              \* position in the function
    u_cancel,          \* cancel_event.is_set()
    u_late,            \* requests started while the cancel flag was set
    u_pages,           \* listing pages fetched
    u_sets,            \* the sets the listing returned
    u_pool,            \* deep-fetch pool: set -> "pending" | "running" | "ok" | "fail"
    u_yielded,         \* futures as_completed has yielded
    u_items,           \* entries gathered by the analysis
    u_upfail,          \* some upstream request of the call failed
    u_out,             \* [done |-> FALSE], then how the call ended
    \* ---- step 7 of global_bn_duo_scan: one leaderboard block
    b_pc,              \* the block: "duo" | "individual" | "gd" | "host", then "done"
    b_names,           \* user_cache: user id -> display name
    b_in,              \* what the block reads
    b_board,           \* the list the block has built and sorted
    \* ---- resolve_users_parallel and the module-level USER_CACHE
    USER_CACHE,        \* user id -> name, kept for the life of the process
    r_pc,              \* "idle" | "pool" | "returned"
    r_ids,             \* user_ids of the call
    r_known,           \* the ids USER_CACHE held when the call started
    r_futures,         \* future_to_uid: uid -> Running, or what fetch_user returned
    r_yielded,         \* futures as_completed has yielded
    r_ret,             \* [done |-> FALSE], then the returned dict
    r_calls,           \* calls made so far
    \* ---- generate_bn_leaderboard_for_user, from the listing on
    g_pc,              \* "idle" | "count" | "resolve" | "build" | "returned"
    g_sets,            \* sets: the nominated sets get_nominated_beatmapsets returned
    g_seen,            \* sets the counting loop has been through
    g_stats,           \* stats: mapper id -> {count, last_date, modes, mode_counts}
    g_order,           \* the keys of stats in insertion order
    g_names,           \* user_cache
    g_out,             \* [done |-> FALSE], then the returned dict
    \* ---- app.py: the job table and the job threads of start_scan
    JOBS,              \* job id -> {status, created_at, cancel_event present}
    RESULTS_CACHE,     \* job id -> created_at of the stored result
    SCAN_CACHE,        \* cache key -> created_at of the cached scan
    j_clock,           \* time.time()
    j_event,           \* job id -> cancel_event.is_set()
    j_pc,              \* job id -> position of its thread in run_scan_job
    j_res,             \* job id -> what the scan function returned
    \* ---- app.py: GLOBAL_SCAN_STATUS and the threads of run_global_bn_duo_scan
    gs_running,        \* GLOBAL_SCAN_STATUS['running']
    gs_pc,             \* thread -> position in run_global_bn_duo_scan
    gs_runs,           \* executions of scan_logic.global_bn_duo_scan started
    \* ---- resolve_users_parallel called from several job threads at once
    c_pc,              \* thread -> "idle" | "pool" | "returned"
    c_ids,             \* thread -> user_ids of its call
    c_futures,         \* thread -> (uid -> Running, or what fetch_user returned)
    c_yielded,         \* thread -> futures its as_completed loop has yielded
    c_calls,           \* calls made so far
    \* ---- one call of process_set (per-user GD scan)
    ps_module,         \* "gder_logic" | "scan_logic"
    ps_set,            \* full_set: the set the deep fetch returned
    ps_host,           \* host_id
    ps_out             \* [done |-> FALSE], then the returned list

scanVars == <<corpus, file, pc, runs, result, scanned_ids, pair_counts,
              individual_counts, gd_counts, host_counts, user_modes, new_sets,
              failed_sets, future_to_set, collected, retry_futures,
              retry_collected, applied, loaded_ids, start_counts, prev_file,
              prev_sets, cur_sets, carried, saves, merge_order, fetches,
              token_lost, lb_file, prev_lb>>
tokenVars == <<tm_token, tm_expires_at, now, issued, wpc, wnow, wtoken,
               wrefreshed>>
loadVars == <<lc_file, lc_out>>
fetchVars == <<f_set, f_pc, f_log, f_resp, f_ev, f_body, f_ret>>
pageVars == <<p_fetcher, p_script, p_type, p_offset, p_all, p_reqs, p_pc>>
searchVars == <<s_status, s_page, s_cursor, s_all, s_reqs, s_pc>>
userVars == <<u_fn, u_pc, u_cancel, u_late, u_pages, u_sets, u_pool, u_yielded,
              u_items, u_upfail, u_out>>
boardVars == <<b_pc, b_names, b_in, b_board>>

resolveVars == <<USER_CACHE, r_pc, r_ids, r_known, r_futures, r_yielded, r_ret, r_calls>>

bnVars == <<g_pc, g_sets, g_seen, g_stats, g_order, g_names, g_out>>

jobVars == <<JOBS, RESULTS_CACHE, SCAN_CACHE, j_clock, j_event, j_pc, j_res>>
gscanVars == <<gs_running, gs_pc, gs_runs>>
callVars == <<c_pc, c_ids, c_futures, c_yielded, c_calls>>
psVars == <<ps_module, ps_set, ps_host, ps_out>>
appVars == <<jobVars, gscanVars, callVars, psVars>>

auxVars == <<fetchVars, pageVars, searchVars, userVars, boardVars,
            resolveVars, bnVars, appVars>>
vars == <<scanVars, tokenVars, loadVars, auxVars>>

-----------------------------------------------------------------------------
(* Bounds *)

MaxRuns == 2

\* _load_cache is applied to files with cache_version 0..MaxVersion
MaxVersion == 3

\* concurrent deep-fetch workers, tokens the server issues, clock ticks
NumWorkers == 2
MaxTokens == 3
MaxTicks == 2

-----------------------------------------------------------------------------
(* Python dict helpers *)

EmptyDict == [x \in {} |-> 0]

Put(f, k, v) == [x \in (DOMAIN f) \cup {k} |-> IF x = k THEN v ELSE f[x]]

\* dict.get(k, d)
Get(f, k, d) == IF k \in DOMAIN f THEN f[k] ELSE d

Range(seq) == {seq[i] : i \in 1..Len(seq)}


-----------------------------------------------------------------------------
(* The upstream data: what the search and the detail endpoint return for    *)
(* each beatmapset.  Set 101 and 102 are the scenario of the specification; *)
(* 103 has no current nominations (events fallback, one nominator twice,   *)
(* two nominators with disjoint modes), a guest with two difficulties and   *)
(* an owners list naming the host.                                          *)

SetIds == {101, 102, 103, 104}

\* the set whose search reference and detail body carry no user_id
HostlessSet == 104

Modes == {"osu", "taiko"}

\* one entry of all_sets (search_ranked_beatmapsets): the shallow reference
Ref(s) ==
    CASE s = 101 -> [id |-> 101, user_id |-> 5, ranked_date |-> 3, last_updated |-> 1]
      [] s = 102 -> [id |-> 102, user_id |-> 6, ranked_date |-> 0, last_updated |-> 5]
      [] s = 103 -> [id |-> 103, user_id |-> 5, ranked_date |-> 2, last_updated |-> 4]
      \* a reference without a user_id: s.get('user_id') is falsy
      [] OTHER   -> [id |-> 104, user_id |-> 0, ranked_date |-> 0, last_updated |-> 2]

\* the body of GET /beatmapsets/{id}, plus the nominate events of the set
Detail(s) ==
    CASE s = 101 ->
           [user_id |-> 5,
            beatmaps |-> << [mode |-> "osu", owners |-> <<5>>, user_id |-> 5],
                            [mode |-> "taiko", owners |-> <<>>, user_id |-> 6] >>,
            current_nominations |-> << [user_id |-> 7, rulesets |-> <<"osu", "taiko">>],
                                       [user_id |-> 8, rulesets |-> <<>>] >>,
            events |-> <<>>]
      [] s = 102 ->
           [user_id |-> 6,
            beatmaps |-> << [mode |-> "taiko", owners |-> <<6>>, user_id |-> 6] >>,
            current_nominations |-> << [user_id |-> 7, rulesets |-> <<"taiko">>] >>,
            events |-> <<>>]
      [] s = 103 ->
           [user_id |-> 5,
            beatmaps |-> << [mode |-> "taiko", owners |-> <<6, 5>>, user_id |-> 5],
                            [mode |-> "osu", owners |-> <<6>>, user_id |-> 5] >>,
            current_nominations |-> <<>>,
            events |-> << [user_id |-> 12, mode |-> "osu"],
                          [user_id |-> 7, mode |-> "taiko"],
                          [user_id |-> 12, mode |-> "taiko"],
                          [user_id |-> 9, mode |-> "osu"] >>]
      \* a body without a user_id: data.get('user_id') is None, so the result
      \* of every deep-fetch of this set is the degraded one
      [] OTHER ->
           [user_id |-> 0, beatmaps |-> <<>>, current_nominations |-> <<>>,
            events |-> <<>>]

\* the outcomes one deep-fetch of set s can have: the detail request fails,
\* succeeds, or succeeds while the events lookup (made only when the set has
\* no current nominations) fails
\* ("fail" names the degraded result, mapset_host_id None: a body without a
\* user_id gives it whatever the responses are)
Outcomes(s) ==
    IF Detail(s).user_id = 0 THEN {"fail"}
    ELSE {"fail", "ok"} \cup
         (IF Detail(s).current_nominations = <<>> THEN {"ok_noevents"} ELSE {})

-----------------------------------------------------------------------------
(* process_nominator_set *)

\* the creator alone, the owners list ignored
BeatmapOwnersCreator(b) ==
    IF b.user_id # 0 THEN {b.user_id} ELSE {}

\* the users credited with beatmap b: its owners list, else its creator
BeatmapOwners(b) ==
    IF b.owners # <<>> THEN Range(b.owners)
    ELSE IF b.user_id # 0 THEN {b.user_id} ELSE {}

ModesOwnedBy(beatmaps, u) ==
    {beatmaps[i].mode : i \in {j \in 1..Len(beatmaps) : u \in BeatmapOwners(beatmaps[j])}}

ProcessNominatorSet(bset, outcome) ==
    IF outcome = "fail"
    THEN [nominations |-> <<>>, gd_user_modes |-> EmptyDict, set_modes |-> {},
          mapset_host_id |-> 0, host_modes |-> {"osu"}]
    ELSE
      LET data == Detail(bset.id)
          cn == data.current_nominations
          noms ==
            IF cn # <<>>
            THEN [i \in 1..Len(cn) |->
                    [nominator_id |-> cn[i].user_id, rulesets |-> cn[i].rulesets]]
            ELSE IF outcome = "ok_noevents" THEN <<>>
            ELSE [i \in 1..Len(data.events) |->
                    [nominator_id |-> data.events[i].user_id,
                     rulesets |-> <<data.events[i].mode>>]]
          host == data.user_id
          bms == IF host # 0 THEN data.beatmaps ELSE <<>>
          set_modes == {bms[i].mode : i \in 1..Len(bms)}
          guests == (UNION {BeatmapOwners(bms[i]) : i \in 1..Len(bms)}) \ {host}
          own == ModesOwnedBy(bms, host)
      IN [nominations |-> noms,
          gd_user_modes |-> [u \in guests |-> ModesOwnedBy(bms, u)],
          set_modes |-> set_modes,
          mapset_host_id |-> host,
          host_modes |-> IF own # {} THEN own
                         ELSE IF set_modes # {} THEN set_modes ELSE {"osu"}]

-----------------------------------------------------------------------------
(* The aggregation: one counter entry is {count, last_date, mode_counts} *)

DefaultEntry == [count |-> 0, last_date |-> 0, mode_counts |-> EmptyDict]

\* counts[k] of a defaultdict: the entry, or a fresh default one
EntryOf(counts, k) == Get(counts, k, DefaultEntry)

\* the credit with last_date overwritten by any non-empty date
CreditOverwrite(e, date) ==
    [e EXCEPT !.count = @ + 1,
              !.last_date = IF date # 0 THEN date ELSE @]

\* the credit that stores the date of the set, whatever it is
CreditAlways(e, date) ==
    [e EXCEPT !.count = @ + 1, !.last_date = date]

\* count += 1; if date and date > last_date: last_date = date
Credit(e, date) ==
    [e EXCEPT !.count = @ + 1,
              !.last_date = IF date # 0 /\ date > @ THEN date ELSE @]

\* for r in rulesets: mode_counts[r] += 1   (rulesets is a list)
RECURSIVE IncModes(_, _)
IncModes(mc, rulesets) ==
    IF rulesets = <<>> THEN mc
    ELSE IncModes(Put(mc, Head(rulesets), Get(mc, Head(rulesets), 0) + 1),
                  Tail(rulesets))

\* for m in modes: mode_counts[m] += 1     (modes is a set)
IncModeSet(mc, modes) ==
    [m \in (DOMAIN mc) \cup modes |->
        Get(mc, m, 0) + (IF m \in modes THEN 1 ELSE 0)]

\* the rulesets without the default: an empty list stays empty
RulesetsNoDefault(n) == n.rulesets

\* n.get('rulesets', []) or ['osu']
Rulesets(n) == IF n.rulesets # <<>> THEN n.rulesets ELSE <<"osu">>

\* {n['nominator_id']: n for n in noms}: the last nomination of a user wins
UniqueNoms(noms) ==
    [u \in {noms[i].nominator_id : i \in 1..Len(noms)} |->
        LET last == CHOOSE i \in 1..Len(noms) :
                      /\ noms[i].nominator_id = u
                      /\ \A j \in 1..Len(noms) : noms[j].nominator_id = u => j <= i
        IN noms[last]]

\* the pairs taken in both orders
NominatorPairsBothOrders(uniq) ==
    {p \in (DOMAIN uniq) \X (DOMAIN uniq) : p[1] # p[2]}

\* combinations(sorted(unique_noms.values(), key=nominator_id), 2)
NominatorPairs(uniq) ==
    {p \in (DOMAIN uniq) \X (DOMAIN uniq) : p[1] < p[2]}

\* the union of the two scopes, whatever they share
SharedModesUnion(n1, n2) ==
    Range(Rulesets(n1)) \cup Range(Rulesets(n2))

\* shared_modes = r1 & r2, or r1 | r2 when that is empty
SharedModes(n1, n2) ==
    LET r1 == Range(Rulesets(n1))
        r2 == Range(Rulesets(n2))
    IN IF r1 \cap r2 # {} THEN r1 \cap r2 ELSE r1 \cup r2

\* the set's date: (ranked_date or last_updated or '').split('T')[0]
SetDate(set_data) ==
    IF set_data.ranked_date # 0 THEN set_data.ranked_date ELSE set_data.last_updated

MergeIndividual(counts, uniq, date) ==
    [u \in (DOMAIN counts) \cup (DOMAIN uniq) |->
        IF u \in DOMAIN uniq
        THEN [Credit(EntryOf(counts, u), date) EXCEPT
                !.mode_counts = IncModes(@, Rulesets(uniq[u]))]
        ELSE counts[u]]

MergePairs(counts, uniq, date) ==
    [p \in (DOMAIN counts) \cup NominatorPairs(uniq) |->
        IF p \in NominatorPairs(uniq)
        THEN [Credit(EntryOf(counts, p), date) EXCEPT
                !.mode_counts = IncModeSet(@, SharedModes(uniq[p[1]], uniq[p[2]]))]
        ELSE counts[p]]

MergeGds(counts, gd_user_modes, date) ==
    [u \in (DOMAIN counts) \cup (DOMAIN gd_user_modes) |->
        IF u \in DOMAIN gd_user_modes
        THEN [Credit(EntryOf(counts, u), date) EXCEPT
                !.mode_counts = IncModeSet(@, gd_user_modes[u])]
        ELSE counts[u]]

\* main pass: take back the default 'osu' credit, then add the real modes
RefineHostMain(counts, host, host_modes) ==
    IF host = 0 \/ host_modes = {} THEN counts
    ELSE LET e == EntryOf(counts, host)
             osu_count == IF host \in DOMAIN counts
                          THEN Get(e.mode_counts, "osu", 0) ELSE 0
             mc == IF osu_count # 0
                   THEN Put(e.mode_counts, "osu", osu_count - 1)
                   ELSE e.mode_counts
         IN Put(counts, host, [e EXCEPT !.mode_counts = IncModeSet(mc, host_modes)])

\* retry pass: the real modes are added, the default credit is kept
RefineHostRetry(counts, host, host_modes) ==
    IF host = 0 \/ host_modes = {} THEN counts
    ELSE LET e == EntryOf(counts, host)
         IN Put(counts, host,
                [e EXCEPT !.mode_counts = IncModeSet(e.mode_counts, host_modes)])

MergeUserModes(um, uniq, gd_user_modes, host, host_modes) ==
    [u \in (DOMAIN um) \cup (DOMAIN uniq) \cup (DOMAIN gd_user_modes)
           \cup (IF host # 0 /\ host_modes # {} THEN {host} ELSE {}) |->
        Get(um, u, {})
        \cup (IF u \in DOMAIN uniq THEN Range(Rulesets(uniq[u])) ELSE {})
        \cup (IF u \in DOMAIN gd_user_modes THEN gd_user_modes[u] ELSE {})
        \cup (IF u = host /\ host # 0 THEN host_modes ELSE {})]

\* The in-memory aggregation state of a run, as one record
Counters(ids, pairs, indiv, gds, hosts, um) ==
    [scanned_ids |-> ids, pair_counts |-> pairs, individual_counts |-> indiv,
     gd_counts |-> gds, host_counts |-> hosts, user_modes |-> um]

\* The body of the as_completed loops for a result with a host id: the set
\* becomes scanned and its nominations, pairs, GDs and host modes are merged.
\* pass is "main" or "retry".
MergeSet(c, bset, res, pass) ==
    LET date == SetDate(Ref(bset.id))
        uniq == UniqueNoms(res.nominations)
    IN Counters(
         c.scanned_ids \cup {bset.id},
         MergePairs(c.pair_counts, uniq, date),
         MergeIndividual(c.individual_counts, uniq, date),
         MergeGds(c.gd_counts, res.gd_user_modes, date),
         IF pass = "main"
           THEN RefineHostMain(c.host_counts, res.mapset_host_id, res.host_modes)
           ELSE RefineHostRetry(c.host_counts, res.mapset_host_id, res.host_modes),
         MergeUserModes(c.user_modes, uniq, res.gd_user_modes,
                        res.mapset_host_id, res.host_modes))

\* Step 3.5: every new set credits its host from the search result alone
RECURSIVE CountHosts(_, _)
CountHosts(counts, sets) ==
    IF sets = {} THEN counts
    ELSE LET s == CHOOSE x \in sets : TRUE
             ref == Ref(s)
             e == Credit(EntryOf(counts, ref.user_id), SetDate(ref))
         IN CountHosts(
              IF ref.user_id # 0
              THEN Put(counts, ref.user_id,
                       [e EXCEPT !.mode_counts = IncModes(@, <<"osu">>)])
              ELSE counts,
              sets \ {s})

RECURSIVE HostUserModes(_, _)
HostUserModes(um, sets) ==
    IF sets = {} THEN um
    ELSE LET s == CHOOSE x \in sets : TRUE
         IN HostUserModes(
              IF Ref(s).user_id # 0
              THEN Put(um, Ref(s).user_id, Get(um, Ref(s).user_id, {}) \cup {"osu"})
              ELSE um,
              sets \ {s})

-----------------------------------------------------------------------------
(* The cache file: JSON text.  Object keys are strings, so the integer and  *)
(* pair keys of the counters are written as decimal digits and read back.   *)

CACHE_VERSION == 2

DigitChars == <<"0", "1", "2", "3", "4", "5", "6", "7", "8", "9">>

\* str(n) for a natural number
RECURSIVE Str(_)
Str(n) ==
    IF n < 10 THEN <<DigitChars[n + 1]>>
    ELSE Str(n \div 10) \o <<DigitChars[(n % 10) + 1]>>

DigitVal(c) == (CHOOSE i \in 1..10 : DigitChars[i] = c) - 1

\* int(s) for a string of digits
RECURSIVE ToInt(_)
ToInt(s) ==
    IF Len(s) = 1 THEN DigitVal(s[1])
    ELSE ToInt(SubSeq(s, 1, Len(s) - 1)) * 10 + DigitVal(s[Len(s)])

\* the two ids written one after the other, with no comma between
PairKeyNoComma(k) == Str(k[1]) \o Str(k[2])

\* f"{k[0]},{k[1]}"
PairKey(k) == Str(k[1]) \o <<",">> \o Str(k[2])

\* s.split(',')
RECURSIVE SplitComma(_)
SplitComma(s) ==
    IF \A i \in 1..Len(s) : s[i] # "," THEN <<s>>
    ELSE LET c == CHOOSE i \in 1..Len(s) :
                    s[i] = "," /\ \A j \in 1..(i - 1) : s[j] # ","
         IN <<SubSeq(s, 1, c - 1)>> \o SplitComma(SubSeq(s, c + 1, Len(s)))

\* the three things the file can be: absent, bytes json.load rejects (also a
\* truncated file), or a JSON document (an object with the listed keys or not)
MissingFile == [kind |-> "missing"]
GarbageFile == [kind |-> "garbage"]
JsonFile(isdict, data) == [kind |-> "json", isdict |-> isdict, data |-> data]

EmptyCache ==
    [scanned_ids |-> {}, pair_counts |-> EmptyDict, cache_version |-> CACHE_VERSION]

\* the try block with the version test written `<=`: every load resets
LoadCacheTryLe(f) ==
    IF f.kind = "garbage" \/ ~f.isdict
    THEN [raised |-> TRUE, value |-> EmptyCache]
    ELSE IF Get(f.data, "cache_version", 1) <= CACHE_VERSION
         THEN [raised |-> FALSE, value |-> EmptyCache]
         ELSE [raised |-> FALSE, value |-> f.data]

\* the try block of _load_cache: json.load and the version test; raised tells
\* whether it left by an exception
LoadCacheTry(f) ==
    IF f.kind = "garbage" \/ ~f.isdict
    THEN [raised |-> TRUE, value |-> EmptyCache]
    ELSE IF Get(f.data, "cache_version", 1) < CACHE_VERSION
         THEN [raised |-> FALSE, value |-> EmptyCache]
         ELSE [raised |-> FALSE, value |-> f.data]

\* _load_cache without the except clause
LoadCacheNoCatch(f) ==
    IF f.kind = "missing" THEN [raised |-> FALSE, value |-> EmptyCache]
    ELSE LoadCacheTry(f)

\* _load_cache: raised tells whether the call raised to its caller
LoadCache(f) ==
    IF f.kind = "missing" THEN [raised |-> FALSE, value |-> EmptyCache]
    ELSE LET r == LoadCacheTry(f)
         IN IF r.raised THEN [raised |-> FALSE, value |-> EmptyCache] ELSE r

\* load_counts_to_dict that restores the counts and modes but not last_date
LoadCountsNoDate(cached) ==
    [k \in {ToInt(ks) : ks \in DOMAIN cached} |->
        LET data == cached[CHOOSE ks \in DOMAIN cached : ToInt(ks) = k]
        IN [count |-> Get(data, "count", 0),
            last_date |-> 0,
            mode_counts |-> Get(data, "mode_counts", EmptyDict)]]

\* load_counts_to_dict for int keys
LoadCounts(cached) ==
    [k \in {ToInt(ks) : ks \in DOMAIN cached} |->
        LET data == cached[CHOOSE ks \in DOMAIN cached : ToInt(ks) = k]
        IN [count |-> Get(data, "count", 0),
            last_date |-> Get(data, "last_date", 0),
            mode_counts |-> Get(data, "mode_counts", EmptyDict)]]

\* load_counts_to_dict with is_pair=True: keys that do not split in two are skipped
LoadPairCounts(cached) ==
    LET good == {ks \in DOMAIN cached : Len(SplitComma(ks)) = 2}
        key(ks) == <<ToInt(SplitComma(ks)[1]), ToInt(SplitComma(ks)[2])>>
    IN [k \in {key(ks) : ks \in good} |->
          LET data == cached[CHOOSE ks \in good : key(ks) = k]
          IN [count |-> Get(data, "count", 0),
              last_date |-> Get(data, "last_date", 0),
              mode_counts |-> Get(data, "mode_counts", EmptyDict)]]

\* the restore step of global_bn_duo_scan: the cache as in-memory counters
Restore(cache) ==
    Counters(
      Get(cache, "scanned_ids", {}),
      LoadPairCounts(Get(cache, "pair_counts", EmptyDict)),
      LoadCounts(Get(cache, "individual_counts", EmptyDict)),
      LoadCounts(Get(cache, "gd_counts", EmptyDict)),
      LoadCounts(Get(cache, "host_counts", EmptyDict)),
      LET um == Get(cache, "user_modes", EmptyDict)
      IN [k \in {ToInt(ks) : ks \in DOMAIN um} |->
            um[CHOOSE ks \in DOMAIN um : ToInt(ks) = k]])

\* json.dump of a counter dict with int keys
DumpCounts(counts) ==
    [ks \in {Str(k) : k \in DOMAIN counts} |->
        counts[CHOOSE k \in DOMAIN counts : Str(k) = ks]]

\* cache_data of step 5, as _save_cache writes it
CacheData(c) ==
    [scanned_ids |-> c.scanned_ids,
     pair_counts |-> [ks \in {PairKey(k) : k \in DOMAIN c.pair_counts} |->
                        c.pair_counts[CHOOSE k \in DOMAIN c.pair_counts : PairKey(k) = ks]],
     individual_counts |-> DumpCounts(c.individual_counts),
     gd_counts |-> DumpCounts(c.gd_counts),
     host_counts |-> DumpCounts(c.host_counts),
     user_modes |-> DumpCounts(c.user_modes),
     cache_version |-> CACHE_VERSION]

\* _save_cache, when the write completes
SaveCache(cache_data) == JsonFile(TRUE, cache_data)

-----------------------------------------------------------------------------
(* global_bn_duo_scan *)

Mem == Counters(scanned_ids, pair_counts, individual_counts, gd_counts,
                host_counts, user_modes)

SetMem(c) ==
    /\ scanned_ids' = c.scanned_ids
    /\ pair_counts' = c.pair_counts
    /\ individual_counts' = c.individual_counts
    /\ gd_counts' = c.gd_counts
    /\ host_counts' = c.host_counts
    /\ user_modes' = c.user_modes

\* the filter left out: every set of the corpus is new
NewSetsAll(all_sets, scanned) == all_sets

\* step 3: new_sets = [s for s in all_sets if s['id'] not in scanned_ids]
NewSets(all_sets, scanned) == {s \in all_sets : s \notin scanned}

\* a pool left without waiting (shutdown(wait=False), or a loop that breaks)
PoolDrainedEarly(futures, yielded) == TRUE

\* a `with ThreadPoolExecutor` block is left when as_completed has yielded
\* every future, which it does only once each of them has finished
PoolDrained(futures, yielded) ==
    /\ yielded = DOMAIN futures
    /\ \A s \in DOMAIN futures : futures[s] # "running"

\* the degraded test left out: every result is merged
IsDegradedNever(res) == FALSE

\* `if mapset_host_id is None`: the deep-fetch degraded
IsDegraded(res) == res.mapset_host_id = 0

\* a worker that adds its own result to the shared collections
WorkerWritesShared(c, bset, res) == MergeSet(c, bset, res, "main")

\* what a worker leaves of the shared collections: process_nominator_set
\* assigns to its five locals only and returns them
WorkerWrites(c, bset, res) == c

\* the retry pool submits nothing
RetrySetsNone(failed) == {}

\* step 4.5: one retry future per entry of failed_sets
RetrySets(failed) == failed

NoApplied == [s \in SetIds |-> [merge |-> 0, host |-> 0]]

ScanInit ==
    /\ corpus = {}
    /\ file = MissingFile
    /\ pc = "idle"
    /\ runs = 0
    /\ result = "none"
    /\ scanned_ids = {}
    /\ pair_counts = EmptyDict
    /\ individual_counts = EmptyDict
    /\ gd_counts = EmptyDict
    /\ host_counts = EmptyDict
    /\ user_modes = EmptyDict
    /\ new_sets = {}
    /\ failed_sets = {}
    /\ future_to_set = EmptyDict
    /\ collected = {}
    /\ retry_futures = EmptyDict
    /\ retry_collected = {}
    /\ applied = NoApplied
    /\ loaded_ids = {}
    /\ start_counts = Counters({}, EmptyDict, EmptyDict, EmptyDict, EmptyDict, EmptyDict)
    /\ prev_file = MissingFile
    /\ prev_sets = {}
    /\ cur_sets = {}
    /\ carried = {}
    /\ saves = 0
    /\ merge_order = <<>>
    /\ fetches = [s \in SetIds |-> 0]
    /\ token_lost = FALSE
    /\ lb_file = MissingFile
    /\ prev_lb = MissingFile

\* upstream: a beatmapset is ranked and from now on returned by the search
\* (the set without a user_id is searched only on its own: a bound on the
\* corpora explored, it keeps the runs that end with 'No data found' apart)
Publish(s) ==
    /\ pc = "idle"
    /\ s \notin corpus
    /\ HostlessSet \notin corpus
    /\ s = HostlessSet => corpus = {}
    /\ corpus' = corpus \cup {s}
    /\ UNCHANGED <<file, pc, runs, result, scanned_ids, pair_counts,
                   individual_counts, gd_counts, host_counts, user_modes, new_sets,
                   failed_sets, future_to_set, collected, retry_futures,
                   retry_collected, applied, loaded_ids, start_counts, prev_file,
                   prev_sets, cur_sets, carried, saves, merge_order>>
    /\ UNCHANGED <<fetches, token_lost>>
    /\ UNCHANGED <<lb_file, prev_lb>>
    /\ UNCHANGED <<tokenVars, loadVars, auxVars>>

\* get_token() returned None: {'error': 'Authentication failed'}
AuthFail ==
    /\ pc = "idle"
    /\ runs < MaxRuns
    /\ result' = "error_auth"
    /\ UNCHANGED <<corpus, file, pc, runs, scanned_ids, pair_counts,
                   individual_counts, gd_counts, host_counts, user_modes, new_sets,
                   failed_sets, future_to_set, collected, retry_futures,
                   retry_collected, applied, loaded_ids, start_counts, prev_file,
                   prev_sets, cur_sets, carried, saves, merge_order>>
    /\ UNCHANGED <<fetches, token_lost>>
    /\ UNCHANGED <<lb_file, prev_lb>>
    /\ UNCHANGED <<tokenVars, loadVars, auxVars>>

\* steps 1 to 4 up to the submission of the main pool: load and restore the
\* cache, search, filter, credit the hosts, submit one future per new set
StartRun ==
    /\ pc = "idle"
    /\ runs < MaxRuns
    /\ LET c0 == Restore(LoadCache(file).value)
           new == NewSets(corpus, c0.scanned_ids)
           c1 == [c0 EXCEPT !.host_counts = CountHosts(@, new),
                            !.user_modes = HostUserModes(@, new)]
       IN /\ runs' = runs + 1
          /\ loaded_ids' = c0.scanned_ids
          /\ prev_file' = file
          /\ prev_sets' = cur_sets
          /\ cur_sets' = corpus
          /\ carried' = {s \in DOMAIN retry_futures : retry_futures[s] = "fail"}
          /\ saves' = 0
          /\ merge_order' = <<>>
          /\ failed_sets' = {}
          /\ collected' = {}
          /\ retry_futures' = EmptyDict
          /\ retry_collected' = {}
          /\ IF corpus = {}
             THEN \* {'error': 'No ranked beatmapsets found'}
                  /\ SetMem(c0)
                  /\ start_counts' = c0
                  /\ new_sets' = {}
                  /\ future_to_set' = EmptyDict
                  /\ result' = "error_nosets"
                  /\ pc' = "idle"
                  /\ applied' = applied
             ELSE /\ SetMem(c1)
                  /\ start_counts' = c1
                  /\ new_sets' = new
                  /\ future_to_set' = [s \in new |-> "running"]
                  /\ result' = "running"
                  /\ pc' = IF new = {} THEN "save" ELSE "main"
                  /\ applied' = [s \in SetIds |->
                                   IF s \in new /\ Ref(s).user_id # 0
                                   THEN [applied[s] EXCEPT !.host = @ + 1]
                                   ELSE applied[s]]
    /\ fetches' = [s \in SetIds |-> 0]
    /\ token_lost' = FALSE
    /\ prev_lb' = lb_file
    /\ UNCHANGED <<corpus, file, lb_file>>
    /\ UNCHANGED <<tokenVars, loadVars, auxVars>>

\* a run whose search returned no set although sets are ranked: the first
\* page of both statuses was refused, search_ranked_beatmapsets breaks out of
\* its loops and returns [].  {'error': 'No ranked beatmapsets found'}
SearchEmpty ==
    /\ pc = "idle"
    /\ runs < MaxRuns
    /\ corpus # {}
    /\ LET c0 == Restore(LoadCache(file).value)
       IN /\ SetMem(c0)
          /\ start_counts' = c0
          /\ loaded_ids' = c0.scanned_ids
    /\ runs' = runs + 1
    /\ prev_file' = file
    /\ prev_lb' = lb_file
    /\ prev_sets' = cur_sets
    /\ cur_sets' = {}
    /\ carried' = {s \in DOMAIN retry_futures : retry_futures[s] = "fail"}
    /\ saves' = 0
    /\ merge_order' = <<>>
    /\ failed_sets' = {}
    /\ collected' = {}
    /\ retry_futures' = EmptyDict
    /\ retry_collected' = {}
    /\ new_sets' = {}
    /\ future_to_set' = EmptyDict
    /\ result' = "error_nosets"
    /\ pc' = "idle"
    /\ fetches' = [s \in SetIds |-> 0]
    /\ token_lost' = FALSE
    /\ UNCHANGED <<corpus, file, lb_file, applied>>
    /\ UNCHANGED <<tokenVars, loadVars, auxVars>>

\* a main-pool worker returns from process_nominator_set
WorkerDone(s, o) ==
    /\ pc = "main"
    /\ s \in DOMAIN future_to_set
    /\ future_to_set[s] = "running"
    /\ future_to_set' = [future_to_set EXCEPT ![s] = o]
    /\ fetches' = [fetches EXCEPT ![s] = @ + 1]
    /\ SetMem(WorkerWrites(Mem, Ref(s), ProcessNominatorSet(Ref(s), o)))
    /\ UNCHANGED <<corpus, file, pc, runs, result, new_sets,
                   failed_sets, collected, retry_futures,
                   retry_collected, applied, loaded_ids, start_counts, prev_file,
                   prev_sets, cur_sets, carried, saves, merge_order, token_lost>>
    /\ UNCHANGED <<lb_file, prev_lb>>
    /\ UNCHANGED <<tokenVars, loadVars, auxVars>>

\* one iteration of the main as_completed loop, for the finished future of s
Merge(s) ==
    /\ pc = "main"
    /\ s \in DOMAIN future_to_set
    /\ future_to_set[s] # "running"
    /\ s \notin collected
    /\ collected' = collected \cup {s}
    /\ LET res == ProcessNominatorSet(Ref(s), future_to_set[s])
       IN IF IsDegraded(res)
          THEN /\ failed_sets' = failed_sets \cup {s}
               /\ UNCHANGED <<scanned_ids, pair_counts, individual_counts,
                              gd_counts, host_counts, user_modes, applied,
                              merge_order>>
          ELSE /\ SetMem(MergeSet(Mem, Ref(s), res, "main"))
               /\ applied' = [applied EXCEPT ![s].merge = @ + 1]
               /\ merge_order' = Append(merge_order, s)
               /\ UNCHANGED failed_sets
    /\ UNCHANGED <<corpus, file, pc, runs, result, new_sets, future_to_set,
                   retry_futures, retry_collected, loaded_ids, start_counts,
                   prev_file, prev_sets, cur_sets, carried, saves>>
    /\ UNCHANGED <<fetches, token_lost>>
    /\ UNCHANGED <<lb_file, prev_lb>>
    /\ UNCHANGED <<tokenVars, loadVars, auxVars>>

\* the main pool is left; step 4.5 submits the retry pool for the failed sets
EndMain ==
    /\ pc = "main"
    /\ PoolDrained(future_to_set, collected)
    /\ IF failed_sets # {}
       THEN /\ retry_futures' = [s \in RetrySets(failed_sets) |-> "running"]
            /\ pc' = "retry"
       ELSE /\ UNCHANGED retry_futures
            /\ pc' = "save"
    /\ UNCHANGED <<corpus, file, runs, result, scanned_ids, pair_counts,
                   individual_counts, gd_counts, host_counts, user_modes, new_sets,
                   failed_sets, future_to_set, collected,
                   retry_collected, applied, loaded_ids, start_counts, prev_file,
                   prev_sets, cur_sets, carried, saves, merge_order>>
    /\ UNCHANGED <<fetches, token_lost>>
    /\ UNCHANGED <<lb_file, prev_lb>>
    /\ UNCHANGED <<tokenVars, loadVars, auxVars>>

\* a retry-pool worker returns from process_nominator_set
RetryDone(s, o) ==
    /\ pc = "retry"
    /\ s \in DOMAIN retry_futures
    /\ retry_futures[s] = "running"
    /\ retry_futures' = [retry_futures EXCEPT ![s] = o]
    /\ fetches' = [fetches EXCEPT ![s] = @ + 1]
    /\ SetMem(WorkerWrites(Mem, Ref(s), ProcessNominatorSet(Ref(s), o)))
    /\ UNCHANGED <<corpus, file, pc, runs, result, new_sets,
                   failed_sets, future_to_set, collected,
                   retry_collected, applied, loaded_ids, start_counts, prev_file,
                   prev_sets, cur_sets, carried, saves, merge_order, token_lost>>
    /\ UNCHANGED <<lb_file, prev_lb>>
    /\ UNCHANGED <<tokenVars, loadVars, auxVars>>

\* one iteration of the retry as_completed loop
RetryMerge(s) ==
    /\ pc = "retry"
    /\ s \in DOMAIN retry_futures
    /\ retry_futures[s] # "running"
    /\ s \notin retry_collected
    /\ retry_collected' = retry_collected \cup {s}
    /\ LET res == ProcessNominatorSet(Ref(s), retry_futures[s])
       IN IF IsDegraded(res)
          THEN UNCHANGED <<scanned_ids, pair_counts, individual_counts,
                           gd_counts, host_counts, user_modes, applied,
                           merge_order>>
          ELSE /\ SetMem(MergeSet(Mem, Ref(s), res, "retry"))
               /\ applied' = [applied EXCEPT ![s].merge = @ + 1]
               /\ merge_order' = Append(merge_order, s)
    /\ UNCHANGED <<corpus, file, pc, runs, result, new_sets, failed_sets,
                   future_to_set, collected, retry_futures, loaded_ids,
                   start_counts, prev_file, prev_sets, cur_sets, carried, saves>>
    /\ UNCHANGED <<fetches, token_lost>>
    /\ UNCHANGED <<lb_file, prev_lb>>
    /\ UNCHANGED <<tokenVars, loadVars, auxVars>>

\* the retry pool is left
EndRetry ==
    /\ pc = "retry"
    /\ PoolDrained(retry_futures, retry_collected)
    /\ pc' = "save"
    /\ UNCHANGED <<corpus, file, runs, result, scanned_ids, pair_counts,
                   individual_counts, gd_counts, host_counts, user_modes, new_sets,
                   failed_sets, future_to_set, collected, retry_futures,
                   retry_collected, applied, loaded_ids, start_counts, prev_file,
                   prev_sets, cur_sets, carried, saves, merge_order>>
    /\ UNCHANGED <<fetches, token_lost>>
    /\ UNCHANGED <<lb_file, prev_lb>>
    /\ UNCHANGED <<tokenVars, loadVars, auxVars>>

\* the 'No data found' test and step 5: the cache is written
\* what step 8 writes to LEADERBOARD_FILE: the totals of the run and its
\* 'updated_at' (the four leaderboards are the subject of SpecBoard)
Snapshot(c, at) ==
    [kind |-> "snapshot",
     total_sets_scanned |-> Cardinality(c.scanned_ids),
     total_duos |-> Cardinality(DOMAIN c.pair_counts),
     total_individuals |-> Cardinality(DOMAIN c.individual_counts),
     total_gders |-> Cardinality(DOMAIN c.gd_counts),
     total_hosts |-> Cardinality(DOMAIN c.host_counts),
     updated_at |-> at]

\* the cache and the snapshot written whether or not data was found
WritesFilesAlways(nodata) == TRUE

\* steps 5 and 8 are reached: the return of 'No data found' comes before them
WritesFiles(nodata) == ~nodata

Finish ==
    /\ pc = "save"
    /\ pc' = "idle"
    /\ LET nodata == /\ pair_counts = EmptyDict
                     /\ individual_counts = EmptyDict
                     /\ gd_counts = EmptyDict
                     /\ host_counts = EmptyDict
       IN /\ result' = IF nodata THEN "error_nodata" ELSE "ok"
          /\ IF WritesFiles(nodata)
             THEN /\ file' = SaveCache(CacheData(Mem))
                  /\ saves' = saves + 1
                  /\ lb_file' = Snapshot(Mem, runs)
             ELSE UNCHANGED <<file, saves, lb_file>>
    /\ UNCHANGED <<corpus, runs, scanned_ids, pair_counts,
                   individual_counts, gd_counts, host_counts, user_modes, new_sets,
                   failed_sets, future_to_set, collected, retry_futures,
                   retry_collected, applied, loaded_ids, start_counts, prev_file,
                   prev_sets, cur_sets, carried, merge_order>>
    /\ UNCHANGED <<fetches, token_lost>>
    /\ UNCHANGED prev_lb
    /\ UNCHANGED <<tokenVars, loadVars, auxVars>>

-----------------------------------------------------------------------------
TokenIdle ==
    /\ tm_token = 0
    /\ tm_expires_at = 0
    /\ now = 0
    /\ issued = <<>>
    /\ wpc = EmptyDict
    /\ wnow = EmptyDict
    /\ wtoken = EmptyDict
    /\ wrefreshed = EmptyDict

LoadIdle ==
    /\ lc_file = MissingFile
    /\ lc_out = [done |-> FALSE]

FetchIdle ==
    /\ f_set = 0
    /\ f_pc = "idle"
    /\ f_log = <<>>
    /\ f_resp = <<>>
    /\ f_ev = <<>>
    /\ f_body = "none"
    /\ f_ret = [done |-> FALSE]

PageIdle ==
    /\ p_fetcher = "none"
    /\ p_script = [pages |-> <<>>]
    /\ p_type = 0
    /\ p_offset = 0
    /\ p_all = <<>>
    /\ p_reqs = <<>>
    /\ p_pc = "idle"

SearchIdle ==
    /\ s_status = 0
    /\ s_page = 0
    /\ s_cursor = 0
    /\ s_all = <<>>
    /\ s_reqs = 0
    /\ s_pc = "idle"

UserIdle ==
    /\ u_fn = "none"
    /\ u_pc = "idle"
    /\ u_cancel = FALSE
    /\ u_late = 0
    /\ u_pages = 0
    /\ u_sets = {}
    /\ u_pool = EmptyDict
    /\ u_yielded = {}
    /\ u_items = {}
    /\ u_upfail = FALSE
    /\ u_out = [done |-> FALSE]

BoardIdle ==
    /\ b_pc = "idle"
    /\ b_names = EmptyDict
    /\ b_in = [kind |-> "none"]
    /\ b_board = <<>>

ResolveIdle ==
    /\ USER_CACHE = EmptyDict
    /\ r_pc = "idle"
    /\ r_ids = {}
    /\ r_known = {}
    /\ r_futures = EmptyDict
    /\ r_yielded = {}
    /\ r_ret = [done |-> FALSE]
    /\ r_calls = 0

BnIdle ==
    /\ g_pc = "idle"
    /\ g_sets = <<>>
    /\ g_seen = 0
    /\ g_stats = EmptyDict
    /\ g_order = <<>>
    /\ g_names = EmptyDict
    /\ g_out = [done |-> FALSE]

JobIdle ==
    /\ JOBS = EmptyDict
    /\ RESULTS_CACHE = EmptyDict
    /\ SCAN_CACHE = EmptyDict
    /\ j_clock = 0
    /\ j_event = EmptyDict
    /\ j_pc = EmptyDict
    /\ j_res = EmptyDict

GlobalIdle ==
    /\ gs_running = FALSE
    /\ gs_pc = EmptyDict
    /\ gs_runs = 0

CallIdle ==
    /\ c_pc = EmptyDict
    /\ c_ids = EmptyDict
    /\ c_futures = EmptyDict
    /\ c_yielded = EmptyDict
    /\ c_calls = 0

PsIdle ==
    /\ ps_module = "none"
    /\ ps_set = [beatmaps |-> <<>>]
    /\ ps_host = 0
    /\ ps_out = [done |-> FALSE]

ScanIdle == ScanInit /\ TokenIdle /\ LoadIdle

Init == ScanIdle /\ FetchIdle /\ PageIdle /\ SearchIdle /\ UserIdle /\ BoardIdle /\ ResolveIdle /\ BnIdle /\ JobIdle /\ GlobalIdle /\ CallIdle /\ PsIdle

Next ==
    \/ \E s \in SetIds : Publish(s)
    \/ AuthFail
    \/ StartRun
    \/ SearchEmpty
    \/ \E s \in SetIds : \E o \in Outcomes(s) : WorkerDone(s, o)
    \/ \E s \in SetIds : Merge(s)
    \/ EndMain
    \/ \E s \in SetIds : \E o \in Outcomes(s) : RetryDone(s, o)
    \/ \E s \in SetIds : RetryMerge(s)
    \/ EndRetry
    \/ Finish

Spec == Init /\ [][Next]_vars

-----------------------------------------------------------------------------
(* The scan with faults.  A cache write can be cut short: _save_cache opens    *)
(* the file with mode 'w', which truncates it, and json.dump then writes into *)
(* it.  An OSError while writing (caught at step 5, the run goes on) or the   *)
(* end of the process leaves the truncated file behind.  The write of the     *)
(* results file can raise, and the token provider can fail inside a worker.   *)

SaveInterrupted ==
    /\ pc = "save"
    /\ ~(/\ pair_counts = EmptyDict
         /\ individual_counts = EmptyDict
         /\ gd_counts = EmptyDict
         /\ host_counts = EmptyDict)
    /\ file' = GarbageFile
    /\ saves' = saves + 1
    /\ result' = "ok"
    /\ pc' = "idle"
    /\ UNCHANGED <<corpus, runs, scanned_ids, pair_counts,
                   individual_counts, gd_counts, host_counts, user_modes, new_sets,
                   failed_sets, future_to_set, collected, retry_futures,
                   retry_collected, applied, loaded_ids, start_counts, prev_file,
                   prev_sets, cur_sets, carried, merge_order>>
    /\ UNCHANGED <<fetches, token_lost>>
    /\ lb_file' = Snapshot(Mem, runs)
    /\ UNCHANGED prev_lb
    /\ UNCHANGED <<tokenVars, loadVars, auxVars>>

\* step 8: the cache was written, then open() or json.dump() of
\* LEADERBOARD_FILE raises: {'error': 'Failed to save results: ...'}
ResultsWriteFail ==
    /\ pc = "save"
    /\ ~(/\ pair_counts = EmptyDict
         /\ individual_counts = EmptyDict
         /\ gd_counts = EmptyDict
         /\ host_counts = EmptyDict)
    /\ file' = SaveCache(CacheData(Mem))
    /\ saves' = saves + 1
    /\ result' = "error_save"
    /\ pc' = "idle"
    /\ UNCHANGED <<corpus, runs, scanned_ids, pair_counts,
                   individual_counts, gd_counts, host_counts, user_modes, new_sets,
                   failed_sets, future_to_set, collected, retry_futures,
                   retry_collected, applied, loaded_ids, start_counts, prev_file,
                   prev_sets, cur_sets, carried, merge_order>>
    /\ UNCHANGED <<fetches, token_lost>>
    \* open() raised and the file is as it was, or json.dump() raised after
    \* open(..., 'w') had truncated it
    /\ lb_file' \in {lb_file, GarbageFile}
    /\ UNCHANGED prev_lb
    /\ UNCHANGED <<tokenVars, loadVars, auxVars>>

\* a main-pool worker whose _token_manager.get_token() returns None: it
\* prints and returns its empty locals, mapset_host_id None
WorkerNoToken(s) ==
    /\ pc = "main"
    /\ s \in DOMAIN future_to_set
    /\ future_to_set[s] = "running"
    /\ future_to_set' = [future_to_set EXCEPT ![s] = "fail"]
    /\ fetches' = [fetches EXCEPT ![s] = @ + 1]
    /\ token_lost' = TRUE
    /\ UNCHANGED <<corpus, file, pc, runs, result, scanned_ids, pair_counts,
                   individual_counts, gd_counts, host_counts, user_modes, new_sets,
                   failed_sets, collected, retry_futures,
                   retry_collected, applied, loaded_ids, start_counts, prev_file,
                   prev_sets, cur_sets, carried, saves, merge_order>>
    /\ UNCHANGED <<lb_file, prev_lb>>
    /\ UNCHANGED <<tokenVars, loadVars, auxVars>>

\* the same in the retry pool
RetryNoToken(s) ==
    /\ pc = "retry"
    /\ s \in DOMAIN retry_futures
    /\ retry_futures[s] = "running"
    /\ retry_futures' = [retry_futures EXCEPT ![s] = "fail"]
    /\ fetches' = [fetches EXCEPT ![s] = @ + 1]
    /\ token_lost' = TRUE
    /\ UNCHANGED <<corpus, file, pc, runs, result, scanned_ids, pair_counts,
                   individual_counts, gd_counts, host_counts, user_modes, new_sets,
                   failed_sets, future_to_set, collected,
                   retry_collected, applied, loaded_ids, start_counts, prev_file,
                   prev_sets, cur_sets, carried, saves, merge_order>>
    /\ UNCHANGED <<lb_file, prev_lb>>
    /\ UNCHANGED <<tokenVars, loadVars, auxVars>>

NextCrash ==
    \/ \E s \in SetIds : Publish(s)
    \/ AuthFail
    \/ StartRun
    \/ SearchEmpty
    \/ \E s \in SetIds : \E o \in Outcomes(s) : WorkerDone(s, o)
    \/ \E s \in SetIds : Merge(s)
    \/ EndMain
    \/ \E s \in SetIds : \E o \in Outcomes(s) : RetryDone(s, o)
    \/ \E s \in SetIds : RetryMerge(s)
    \/ EndRetry
    \/ Finish
    \/ SaveInterrupted
    \/ ResultsWriteFail
    \/ \E s \in SetIds : WorkerNoToken(s)
    \/ \E s \in SetIds : RetryNoToken(s)

SpecCrash == Init /\ [][NextCrash]_vars

-----------------------------------------------------------------------------
(* _load_cache applied to every file of a bounded family *)

LoadEntry == [count |-> 1, last_date |-> 3, mode_counts |-> [m \in {"osu"} |-> 1]]

\* the JSON objects: with or without a cache_version, scanned ids, pair and
\* individual counts
LoadDicts ==
    {[scanned_ids |-> ids, pair_counts |-> pairs] : 
        ids \in SUBSET {101, 102},
        pairs \in {EmptyDict, [k \in {PairKey(<<7, 8>>)} |-> LoadEntry]}}
    \cup
    {[scanned_ids |-> ids, pair_counts |-> pairs, cache_version |-> v] :
        ids \in SUBSET {101, 102},
        pairs \in {EmptyDict, [k \in {PairKey(<<7, 8>>)} |-> LoadEntry]},
        v \in 0..MaxVersion}
    \cup
    {[scanned_ids |-> ids, pair_counts |-> EmptyDict,
      individual_counts |-> [k \in {Str(7)} |-> LoadEntry], cache_version |-> v] :
        ids \in SUBSET {101, 102}, v \in 0..MaxVersion}

LoadFiles ==
    {MissingFile, GarbageFile, JsonFile(FALSE, <<>>)}
    \cup {JsonFile(TRUE, d) : d \in LoadDicts}

LoadInit ==
    /\ lc_file \in LoadFiles
    /\ lc_out = [done |-> FALSE]

\* a call of _load_cache
LoadStep ==
    /\ ~lc_out.done
    /\ lc_out' = [done |-> TRUE, raised |-> LoadCache(lc_file).raised,
                  value |-> LoadCache(lc_file).value]
    /\ UNCHANGED lc_file
    /\ UNCHANGED <<scanVars, tokenVars, auxVars>>

NextLoad == LoadStep

InitLoad ==
    ScanInit /\ TokenIdle /\ LoadInit /\ FetchIdle /\ PageIdle /\ SearchIdle /\ UserIdle /\ BoardIdle /\ ResolveIdle /\ BnIdle /\ JobIdle /\ GlobalIdle /\ CallIdle /\ PsIdle

SpecLoad == InitLoad /\ [][NextLoad]_vars

-----------------------------------------------------------------------------
(* TokenManager under concurrent deep-fetch workers.  Each worker runs the    *)
(* token part of process_nominator_set: get_token, the detail request, and on *)
(* a 401 refresh_token and the request once more.                             *)

REFRESH_MARGIN == 300
DEFAULT_EXPIRES_IN == 86400

\* the clock advances by half a token lifetime
TickStep == DEFAULT_EXPIRES_IN \div 2

Workers == 1..NumWorkers

\* the server accepts token k until its lifetime is over
TokenValid(k) == k # 0 /\ now < issued[k] + DEFAULT_EXPIRES_IN

\* `if self.token and now < self.expires_at - 300`
CachedTokenFresh == tm_token # 0 /\ now < tm_expires_at - REFRESH_MARGIN

TokenInit ==
    /\ tm_token = 0
    /\ tm_expires_at = 0
    /\ now = 0
    /\ issued = <<>>
    /\ wpc = [w \in Workers |-> "get_token"]
    /\ wnow = [w \in Workers |-> 0]
    /\ wtoken = [w \in Workers |-> 0]
    /\ wrefreshed = [w \in Workers |-> FALSE]

Tick ==
    /\ now < MaxTicks * TickStep
    /\ now' = now + TickStep
    /\ UNCHANGED <<tm_token, tm_expires_at, issued, wpc, wnow, wtoken, wrefreshed>>
    /\ UNCHANGED <<scanVars, loadVars, auxVars>>

\* get_token up to the cached-token test: return the cached token, or send
\* the credential exchange
GetToken(w) ==
    /\ wpc[w] = "get_token"
    /\ IF CachedTokenFresh
       THEN /\ wtoken' = [wtoken EXCEPT ![w] = tm_token]
            /\ wpc' = [wpc EXCEPT ![w] = "request"]
            /\ UNCHANGED wnow
       ELSE /\ Len(issued) < MaxTokens
            /\ wnow' = [wnow EXCEPT ![w] = now]
            /\ wpc' = [wpc EXCEPT ![w] = "exchange"]
            /\ UNCHANGED wtoken
    /\ UNCHANGED <<tm_token, tm_expires_at, now, issued, wrefreshed>>
    /\ UNCHANGED <<scanVars, loadVars, auxVars>>

\* the POST to TOKEN_URL answers: the token and its expiry are stored
ExchangeOk(w) ==
    /\ wpc[w] = "exchange"
    /\ issued' = Append(issued, now)
    /\ tm_token' = Len(issued) + 1
    /\ tm_expires_at' = wnow[w] + DEFAULT_EXPIRES_IN
    /\ wtoken' = [wtoken EXCEPT ![w] = Len(issued) + 1]
    /\ wpc' = [wpc EXCEPT ![w] = "request"]
    /\ UNCHANGED <<now, wnow, wrefreshed>>
    /\ UNCHANGED <<scanVars, loadVars, auxVars>>

\* the POST fails: get_token returns None and the deep-fetch degrades
ExchangeFail(w) ==
    /\ wpc[w] = "exchange"
    /\ wtoken' = [wtoken EXCEPT ![w] = 0]
    /\ wpc' = [wpc EXCEPT ![w] = "degraded"]
    /\ UNCHANGED <<tm_token, tm_expires_at, now, issued, wnow, wrefreshed>>
    /\ UNCHANGED <<scanVars, loadVars, auxVars>>

\* the detail request: 200, or 401 for a token the server no longer accepts;
\* the first 401 leads to refresh_token, the second degrades the deep-fetch
Request(w) ==
    /\ wpc[w] = "request"
    /\ wpc' = [wpc EXCEPT ![w] =
                 IF TokenValid(wtoken[w]) THEN "fetched"
                 ELSE IF ~wrefreshed[w] THEN "refresh" ELSE "degraded"]
    /\ UNCHANGED <<tm_token, tm_expires_at, now, issued, wnow, wtoken, wrefreshed>>
    /\ UNCHANGED <<scanVars, loadVars, auxVars>>

\* the detail request fails otherwise (timeout, 5xx after the retries)
RequestFail(w) ==
    /\ wpc[w] = "request"
    /\ wpc' = [wpc EXCEPT ![w] = "degraded"]
    /\ UNCHANGED <<tm_token, tm_expires_at, now, issued, wnow, wtoken, wrefreshed>>
    /\ UNCHANGED <<scanVars, loadVars, auxVars>>

\* refresh_token: the cached token is dropped, then get_token is called
RefreshToken(w) ==
    /\ wpc[w] = "refresh"
    /\ tm_token' = 0
    /\ tm_expires_at' = 0
    /\ wrefreshed' = [wrefreshed EXCEPT ![w] = TRUE]
    /\ wpc' = [wpc EXCEPT ![w] = "get_token"]
    /\ UNCHANGED <<now, issued, wnow, wtoken>>
    /\ UNCHANGED <<scanVars, loadVars, auxVars>>

NextToken ==
    \/ Tick
    \/ \E w \in Workers : GetToken(w)
    \/ \E w \in Workers : ExchangeOk(w)
    \/ \E w \in Workers : ExchangeFail(w)
    \/ \E w \in Workers : Request(w)
    \/ \E w \in Workers : RequestFail(w)
    \/ \E w \in Workers : RefreshToken(w)

InitToken ==
    ScanInit /\ TokenInit /\ LoadIdle /\ FetchIdle /\ PageIdle /\ SearchIdle /\ UserIdle /\ BoardIdle /\ ResolveIdle /\ BnIdle /\ JobIdle /\ GlobalIdle /\ CallIdle /\ PsIdle

SpecToken == InitToken /\ [][NextToken]_vars

-----------------------------------------------------------------------------
(* One call of process_nominator_set, request by request.  The token provider *)
(* supplies a token or None; the detail and the events endpoint answer 200,   *)
(* 401, another status, or not at all; a 200 detail body can be unparsable,   *)
(* or parse into a beatmap whose owner entry has no 'id'.                     *)

TokenAnswers == {TRUE, FALSE}

\* "500" stands for a 429/5xx that outlasts the session's retries, which
\* raises like a timeout does
DetailResponses ==
    {"200", "200_badjson", "200_badbeatmap", "401", "404", "500", "timeout"}

EventsResponses == {"200", "200_badjson", "401", "404", "500", "timeout"}

\* the tuple returned when nothing was extracted: mapset_host_id is None
DegradedResult(s) == ProcessNominatorSet(Ref(s), "fail")

\* owner['id'] raises KeyError at the first beatmap, after mapset_host_id and
\* the nominations were assigned and the beatmap's mode was added to set_modes;
\* the except clause prints, and the fallback fills host_modes from set_modes
ProcessMalformed(bset, outcome) ==
    LET full == ProcessNominatorSet(bset, outcome)
        b1 == Detail(bset.id).beatmaps[1]
    IN [full EXCEPT !.gd_user_modes = EmptyDict,
                    !.set_modes = {b1.mode},
                    !.host_modes = {b1.mode}]

\* lines 368-402 for the 200 body held in f_body
Extract(s, body, outcome) ==
    IF body = "badbeatmap" THEN ProcessMalformed(Ref(s), outcome)
    ELSE ProcessNominatorSet(Ref(s), outcome)

Return(res) ==
    /\ f_pc' = "returned"
    /\ f_ret' = [done |-> TRUE, res |-> res]

\* (a call for a set with a whole body: the malformed variants need a beatmap)
FetchInit ==
    /\ f_set \in SetIds \ {HostlessSet}
    /\ f_pc = "get_token"
    /\ f_log = <<>>
    /\ f_resp = <<>>
    /\ f_ev = <<>>
    /\ f_body = "none"
    /\ f_ret = [done |-> FALSE]

\* token = _token_manager.get_token(); `if not token: return ...`
FGetToken(tok) ==
    /\ f_pc = "get_token"
    /\ IF tok
       THEN f_pc' = "detail" /\ UNCHANGED f_ret
       ELSE Return(DegradedResult(f_set))
    /\ UNCHANGED <<f_set, f_log, f_resp, f_ev, f_body>>
    /\ UNCHANGED <<scanVars, tokenVars, loadVars, pageVars, searchVars, userVars>>
    /\ UNCHANGED <<boardVars, resolveVars, bnVars, appVars>>

\* r = req_func(url, ...), first or after the refresh, and what follows it up
\* to the next request
FDetail(r) ==
    /\ f_pc = "detail"
    /\ f_log' = Append(f_log, "detail")
    /\ f_resp' = Append(f_resp, r)
    /\ IF r = "401" /\ f_resp = <<>>
       THEN f_pc' = "refresh" /\ UNCHANGED <<f_body, f_ret>>
       ELSE IF r \in {"200", "200_badbeatmap"}
       THEN /\ f_body' = IF r = "200" THEN "good" ELSE "badbeatmap"
            /\ IF Detail(f_set).current_nominations = <<>>
               THEN f_pc' = "events" /\ UNCHANGED f_ret
               ELSE Return(Extract(f_set, f_body', "ok"))
       ELSE Return(DegradedResult(f_set)) /\ UNCHANGED f_body
    /\ UNCHANGED <<f_set, f_ev>>
    /\ UNCHANGED <<scanVars, tokenVars, loadVars, pageVars, searchVars, userVars>>
    /\ UNCHANGED <<boardVars, resolveVars, bnVars, appVars>>

\* refreshed_token = _token_manager.refresh_token() after a 401 detail response
FRefresh(tok) ==
    /\ f_pc = "refresh"
    /\ f_log' = Append(f_log, "refresh")
    /\ IF tok
       THEN f_pc' = "detail" /\ UNCHANGED f_ret
       ELSE Return(DegradedResult(f_set))
    /\ UNCHANGED <<f_set, f_resp, f_ev, f_body>>
    /\ UNCHANGED <<scanVars, tokenVars, loadVars, pageVars, searchVars, userVars>>
    /\ UNCHANGED <<boardVars, resolveVars, bnVars, appVars>>

\* events_r = req_func(events_url, ...), first or after the refresh
FEvents(r) ==
    /\ f_pc = "events"
    /\ f_log' = Append(f_log, "events")
    /\ f_ev' = Append(f_ev, r)
    /\ IF r = "401" /\ f_ev = <<>>
       THEN f_pc' = "events_refresh" /\ UNCHANGED f_ret
       ELSE Return(Extract(f_set, f_body, IF r = "200" THEN "ok" ELSE "ok_noevents"))
    /\ UNCHANGED <<f_set, f_resp, f_body>>
    /\ UNCHANGED <<scanVars, tokenVars, loadVars, pageVars, searchVars, userVars>>
    /\ UNCHANGED <<boardVars, resolveVars, bnVars, appVars>>

\* refreshed_token = _token_manager.refresh_token() after a 401 events response
FEventsRefresh(tok) ==
    /\ f_pc = "events_refresh"
    /\ f_log' = Append(f_log, "refresh")
    /\ IF tok
       THEN f_pc' = "events" /\ UNCHANGED f_ret
       ELSE Return(Extract(f_set, f_body, "ok_noevents"))
    /\ UNCHANGED <<f_set, f_resp, f_ev, f_body>>
    /\ UNCHANGED <<scanVars, tokenVars, loadVars, pageVars, searchVars, userVars>>
    /\ UNCHANGED <<boardVars, resolveVars, bnVars, appVars>>

NextFetch ==
    \/ \E tok \in TokenAnswers : FGetToken(tok)
    \/ \E r \in DetailResponses : FDetail(r)
    \/ \E tok \in TokenAnswers : FRefresh(tok)
    \/ \E r \in EventsResponses : FEvents(r)
    \/ \E tok \in TokenAnswers : FEventsRefresh(tok)

InitFetch == ScanIdle /\ FetchInit /\ PageIdle /\ SearchIdle /\ UserIdle /\ BoardIdle /\ ResolveIdle /\ BnIdle /\ JobIdle /\ GlobalIdle /\ CallIdle /\ PsIdle

SpecFetch == InitFetch /\ [][NextFetch]_vars

-----------------------------------------------------------------------------
(* One call of a per-user scan function with its cancel flag.  "gd" is         *)
(* generate_leaderboard_for_user, "nominators", "bn" and "gd_hosts" are the    *)
(* generate_*_leaderboard_for_user functions.  The listing is followed page by *)
(* page (page k brings set k), the deep-fetch pool task by task.               *)

UserFns == {"gd", "nominators", "bn", "gd_hosts"}

\* the functions that deep-fetch every listed set
DeepScans(fn) == fn \in {"gd", "nominators"}

\* the functions that test the cancel flag after get_token and after the
\* name resolution
ChecksAround(fn) == fn \in {"bn", "gd_hosts"}

MaxPages == 2

MAX_WORKERS == 8

ListingResponses == {"page", "empty", "404", "error"}

Out(kind, empty) ==
    /\ u_out' = [done |-> TRUE, kind |-> kind, empty |-> empty]
    /\ u_pc' = "done"

\* a request is started: it is late if the cancel flag is already set
Started == IF u_cancel THEN u_late + 1 ELSE u_late

UserInit ==
    /\ u_fn \in UserFns
    /\ u_pc = "token"
    /\ u_cancel = FALSE
    /\ u_late = 0
    /\ u_pages = 0
    /\ u_sets = {}
    /\ u_pool = EmptyDict
    /\ u_yielded = {}
    /\ u_items = {}
    /\ u_upfail = FALSE
    /\ u_out = [done |-> FALSE]

\* app.py cancel_scan: cancel_event.set()
UCancel ==
    /\ ~u_out.done
    /\ ~u_cancel
    /\ u_cancel' = TRUE
    /\ UNCHANGED <<u_fn, u_pc, u_late, u_pages, u_sets, u_pool, u_yielded,
                   u_items, u_upfail, u_out>>
    /\ UNCHANGED <<scanVars, tokenVars, loadVars, fetchVars, pageVars, searchVars>>
    /\ UNCHANGED <<boardVars, resolveVars, bnVars, appVars>>

\* token = get_token(), and the cancel test two of the functions make next
UToken(tok) ==
    /\ u_pc = "token"
    /\ IF ~tok THEN Out("error", FALSE)
       ELSE IF ChecksAround(u_fn) /\ u_cancel THEN Out("cancelled", FALSE)
       ELSE u_pc' = "user_id" /\ UNCHANGED u_out
    /\ UNCHANGED <<u_fn, u_cancel, u_late, u_pages, u_sets, u_pool, u_yielded,
                   u_items, u_upfail>>
    /\ UNCHANGED <<scanVars, tokenVars, loadVars, fetchVars, pageVars, searchVars>>
    /\ UNCHANGED <<boardVars, resolveVars, bnVars, appVars>>

\* user_id, username = get_user_id(username_input, token)
UUserId(found) ==
    /\ u_pc = "user_id"
    /\ u_late' = Started
    /\ IF found
       THEN /\ u_pc' = IF DeepScans(u_fn) THEN "list_ranked" ELSE "list"
            /\ UNCHANGED u_out
       ELSE Out("error", FALSE)
    /\ UNCHANGED <<u_fn, u_cancel, u_pages, u_sets, u_pool, u_yielded, u_items,
                   u_upfail>>
    /\ UNCHANGED <<scanVars, tokenVars, loadVars, fetchVars, pageVars, searchVars>>
    /\ UNCHANGED <<boardVars, resolveVars, bnVars, appVars>>

\* one iteration of the `while True` loop of the listing fetcher; a fetcher
\* that sees the flag returns [] and its caller returns 'Cancelled'
UListPage(resp) ==
    /\ u_pc \in {"list_ranked", "list_loved", "list"}
    /\ IF u_cancel
       THEN /\ Out("cancelled", FALSE)
            /\ UNCHANGED <<u_late, u_pages, u_sets, u_upfail>>
       ELSE /\ u_late' = Started
            /\ CASE resp = "page" ->
                      /\ u_pages < MaxPages
                      /\ u_pages' = u_pages + 1
                      /\ u_sets' = u_sets \cup {u_pages + 1}
                      /\ UNCHANGED <<u_pc, u_out, u_upfail>>
                 [] resp \in {"empty", "404"} ->
                      /\ u_pc' = IF u_pc = "list_ranked" THEN "list_loved"
                                 ELSE "after_list"
                      /\ UNCHANGED <<u_pages, u_sets, u_out, u_upfail>>
                 [] OTHER ->
                      \* raise_for_status() or the request raises: `raise e`
                      /\ Out("raised", FALSE)
                      /\ u_upfail' = TRUE
                      /\ UNCHANGED <<u_pages, u_sets>>
    /\ UNCHANGED <<u_fn, u_cancel, u_pool, u_yielded, u_items>>
    /\ UNCHANGED <<scanVars, tokenVars, loadVars, fetchVars, pageVars, searchVars>>
    /\ UNCHANGED <<boardVars, resolveVars, bnVars, appVars>>

\* the cancel test after the listing, then the pool is submitted or, in the
\* functions without a deep scan, `if not sets` is tested
UAfterList ==
    /\ u_pc = "after_list"
    /\ IF u_cancel THEN Out("cancelled", FALSE) /\ UNCHANGED u_pool
       ELSE IF DeepScans(u_fn)
       THEN /\ u_pool' = [s \in u_sets |-> "pending"]
            /\ u_pc' = "pool"
            /\ UNCHANGED u_out
       ELSE /\ UNCHANGED u_pool
            /\ IF u_sets = {} THEN Out("result", TRUE)
               ELSE u_pc' = "resolve" /\ UNCHANGED u_out
    /\ UNCHANGED <<u_fn, u_cancel, u_late, u_pages, u_sets, u_yielded, u_items,
                   u_upfail>>
    /\ UNCHANGED <<scanVars, tokenVars, loadVars, fetchVars, pageVars, searchVars>>
    /\ UNCHANGED <<boardVars, resolveVars, bnVars, appVars>>

\* a pool thread takes a submitted task and sends its detail request
UStart(s) ==
    /\ u_pc = "pool"
    /\ s \in DOMAIN u_pool
    /\ u_pool[s] = "pending"
    /\ Cardinality({t \in DOMAIN u_pool : u_pool[t] = "running"}) < MAX_WORKERS
    /\ u_pool' = [u_pool EXCEPT ![s] = "running"]
    /\ u_late' = Started
    /\ UNCHANGED <<u_fn, u_pc, u_cancel, u_pages, u_sets, u_yielded, u_items,
                   u_upfail, u_out>>
    /\ UNCHANGED <<scanVars, tokenVars, loadVars, fetchVars, pageVars, searchVars>>
    /\ UNCHANGED <<boardVars, resolveVars, bnVars, appVars>>

\* process_set / process_nominator_set returns
UFinish(s, ok) ==
    /\ u_pc \in {"pool", "pool_exit"}
    /\ s \in DOMAIN u_pool
    /\ u_pool[s] = "running"
    /\ u_pool' = [u_pool EXCEPT ![s] = IF ok THEN "ok" ELSE "fail"]
    /\ u_upfail' = (u_upfail \/ ~ok)
    /\ UNCHANGED <<u_fn, u_pc, u_cancel, u_late, u_pages, u_sets, u_yielded,
                   u_items, u_out>>
    /\ UNCHANGED <<scanVars, tokenVars, loadVars, fetchVars, pageVars, searchVars>>
    /\ UNCHANGED <<boardVars, resolveVars, bnVars, appVars>>

\* one iteration of the as_completed loop.  analyze_sets tests the flag and
\* shuts the pool down, cancelling what has not started; analyze_nominators
\* does not test it.  A failed deep-fetch leaves process_set with the listed
\* set's own data and process_nominator_set with no nominations.
UCollect(s) ==
    /\ u_pc = "pool"
    /\ s \in DOMAIN u_pool
    /\ u_pool[s] \in {"ok", "fail"}
    /\ s \notin u_yielded
    /\ IF u_fn = "gd" /\ u_cancel
       THEN /\ u_pool' = [t \in DOMAIN u_pool |->
                            IF u_pool[t] = "pending" THEN "cancelled" ELSE u_pool[t]]
            /\ u_pc' = "pool_exit"
            /\ UNCHANGED <<u_yielded, u_items>>
       ELSE /\ u_yielded' = u_yielded \cup {s}
            /\ u_items' = IF u_pool[s] = "ok" \/ u_fn = "gd"
                          THEN u_items \cup {s} ELSE u_items
            /\ UNCHANGED <<u_pool, u_pc>>
    /\ UNCHANGED <<u_fn, u_cancel, u_late, u_pages, u_sets, u_upfail, u_out>>
    /\ UNCHANGED <<scanVars, tokenVars, loadVars, fetchVars, pageVars, searchVars>>
    /\ UNCHANGED <<boardVars, resolveVars, bnVars, appVars>>

\* the `with` block of a pool that was shut down is left once the running
\* tasks have ended; analyze_sets returned [] and the caller tests the flag
UPoolExit ==
    /\ u_pc = "pool_exit"
    /\ \A t \in DOMAIN u_pool : u_pool[t] # "running"
    /\ Out("cancelled", FALSE)
    /\ UNCHANGED <<u_fn, u_cancel, u_late, u_pages, u_sets, u_pool, u_yielded,
                   u_items, u_upfail>>
    /\ UNCHANGED <<scanVars, tokenVars, loadVars, fetchVars, pageVars, searchVars>>
    /\ UNCHANGED <<boardVars, resolveVars, bnVars, appVars>>

\* the loop has yielded every future: the cancel test and `if not gds / noms`
UPoolDone ==
    /\ u_pc = "pool"
    /\ u_yielded = DOMAIN u_pool
    /\ IF u_cancel THEN Out("cancelled", FALSE)
       ELSE IF u_items = {} THEN Out("result", TRUE)
       ELSE u_pc' = "resolve" /\ UNCHANGED u_out
    /\ UNCHANGED <<u_fn, u_cancel, u_late, u_pages, u_sets, u_pool, u_yielded,
                   u_items, u_upfail>>
    /\ UNCHANGED <<scanVars, tokenVars, loadVars, fetchVars, pageVars, searchVars>>
    /\ UNCHANGED <<boardVars, resolveVars, bnVars, appVars>>

\* resolve_users_parallel (a failed lookup falls back to 'User_<id>'), then
\* the leaderboard is returned; two of the functions test the flag first
UResolve(ok) ==
    /\ u_pc = "resolve"
    /\ u_late' = Started
    /\ u_upfail' = (u_upfail \/ ~ok)
    /\ IF ChecksAround(u_fn) /\ u_cancel THEN Out("cancelled", FALSE)
       ELSE Out("result", FALSE)
    /\ UNCHANGED <<u_fn, u_cancel, u_pages, u_sets, u_pool, u_yielded, u_items>>
    /\ UNCHANGED <<scanVars, tokenVars, loadVars, fetchVars, pageVars, searchVars>>
    /\ UNCHANGED <<boardVars, resolveVars, bnVars, appVars>>

NextUser ==
    \/ UCancel
    \/ \E tok \in BOOLEAN : UToken(tok)
    \/ \E found \in BOOLEAN : UUserId(found)
    \/ \E resp \in ListingResponses : UListPage(resp)
    \/ UAfterList
    \/ \E s \in 1..MaxPages : UStart(s)
    \/ \E s \in 1..MaxPages : \E ok \in BOOLEAN : UFinish(s, ok)
    \/ \E s \in 1..MaxPages : UCollect(s)
    \/ UPoolExit
    \/ UPoolDone
    \/ \E ok \in BOOLEAN : UResolve(ok)

InitUser == ScanIdle /\ FetchIdle /\ PageIdle /\ SearchIdle /\ UserInit /\ BoardIdle /\ ResolveIdle /\ BnIdle /\ JobIdle /\ GlobalIdle /\ CallIdle /\ PsIdle

SpecUser == InitUser /\ [][NextUser]_vars

-----------------------------------------------------------------------------
(* One call of a per-user listing fetcher against a scripted endpoint: every   *)
(* set type has the same list, `full` pages of `limit` items and then a short  *)
(* page; the request number `fault.at` (0: none) is answered with a status     *)
(* other than 200.  Item i of type t is <<t, i>>.                              *)

Fetchers == {"scan.get_beatmapsets", "scan.get_nominated_beatmapsets",
             "scan.get_guest_beatmapsets", "gder.get_beatmapsets",
             "gder.get_nominated_beatmapsets", "gder.get_guest_beatmapsets"}

InGder(f) == f \in {"gder.get_beatmapsets", "gder.get_nominated_beatmapsets",
                    "gder.get_guest_beatmapsets"}

\* `limit = 50` / `limit = 100`
Limit(f) ==
    IF f \in {"gder.get_beatmapsets", "gder.get_guest_beatmapsets"} THEN 100 ELSE 50

\* len(set_types); the other fetchers have one endpoint
NumTypes(f) ==
    IF f \in {"scan.get_beatmapsets", "gder.get_beatmapsets"} THEN 2 ELSE 1

\* `if len(data) < limit: break` exists in gder_logic only
StopsOnShort(f) == InGder(f)

\* the except clause: `raise e` in scan_logic, `break` in gder_logic
RaisesOnError(f) == ~InGder(f)

MaxFull == 2

MaxFaultAt == 3

ShortKinds == {"empty", "one", "almost"}

ShortLen(f, kind) ==
    CASE kind = "empty" -> 0
      [] kind = "one" -> 1
      [] OTHER -> Limit(f) - 1

Scripts ==
    {[full |-> n, short |-> k, fault |-> [at |-> 0, status |-> "200"]] :
        n \in 0..MaxFull, k \in ShortKinds}
    \cup
    {[full |-> n, short |-> k, fault |-> [at |-> a, status |-> st]] :
        n \in 0..MaxFull, k \in ShortKinds, a \in 1..MaxFaultAt,
        st \in {"403", "404"}}

\* how many items the endpoint holds for each set type
ListLen(f, script) == script.full * Limit(f) + ShortLen(f, script.short)

\* the body of a 200 response to ?limit=..&offset=..
PageData(f, script, t, offset) ==
    LET len == ListLen(f, script)
        hi == IF offset + Limit(f) < len THEN offset + Limit(f) ELSE len
    IN IF offset >= len THEN <<>>
       ELSE [i \in 1..(hi - offset) |-> <<t, offset + i>>]

PageInit ==
    /\ p_fetcher \in Fetchers
    /\ p_script \in Scripts
    /\ p_type = 1
    /\ p_offset = 0
    /\ p_all = <<>>
    /\ p_reqs = <<>>
    /\ p_pc = "loop"

\* `break`: the loop of this set type is left
Break ==
    IF p_type < NumTypes(p_fetcher)
    THEN p_type' = p_type + 1 /\ p_offset' = 0 /\ UNCHANGED p_pc
    ELSE p_pc' = "returned" /\ UNCHANGED <<p_type, p_offset>>

\* one iteration of `while True` (the cancel flag is not set)
PRequest ==
    /\ p_pc = "loop"
    /\ p_reqs' = Append(p_reqs, <<p_type, p_offset>>)
    /\ LET status == IF p_script.fault.at = Len(p_reqs) + 1
                     THEN p_script.fault.status ELSE "200"
           data == PageData(p_fetcher, p_script, p_type, p_offset)
       IN CASE status = "404" -> Break /\ UNCHANGED p_all
            [] status = "403" ->
                 \* raise_for_status() raises into the except clause
                 IF RaisesOnError(p_fetcher)
                 THEN p_pc' = "raised" /\ UNCHANGED <<p_type, p_offset, p_all>>
                 ELSE Break /\ UNCHANGED p_all
            [] OTHER ->
                 IF data = <<>> THEN Break /\ UNCHANGED p_all
                 ELSE /\ p_all' = p_all \o data
                      /\ IF StopsOnShort(p_fetcher) /\ Len(data) < Limit(p_fetcher)
                         THEN Break
                         ELSE /\ p_offset' = p_offset +
                                    (IF InGder(p_fetcher) THEN Len(data)
                                     ELSE Limit(p_fetcher))
                              /\ UNCHANGED <<p_type, p_pc>>
    /\ UNCHANGED <<p_fetcher, p_script>>
    /\ UNCHANGED <<scanVars, tokenVars, loadVars, fetchVars, searchVars, userVars>>
    /\ UNCHANGED <<boardVars, resolveVars, bnVars, appVars>>

NextPage == PRequest

InitPage == ScanIdle /\ FetchIdle /\ PageInit /\ SearchIdle /\ UserIdle /\ BoardIdle /\ ResolveIdle /\ BnIdle /\ JobIdle /\ GlobalIdle /\ CallIdle /\ PsIdle

SpecPage == InitPage /\ [][NextPage]_vars

-----------------------------------------------------------------------------
(* One call of search_ranked_beatmapsets.  The server answers every page       *)
(* request with a status other than 200, not at all, or with 200, a page of    *)
(* sets and a cursor_string or none.                                           *)

STATUSES == <<"ranked", "qualified", "loved", "approved">>

PAGE_CAP == 500

\* the pages the server can answer with: a set can come back on a later page,
\* under a later status, or twice on one page
SearchPages == {<<>>, <<1>>, <<1, 2>>, <<2, 2>>}

SearchOutcomes ==
    {[kind |-> k, sets |-> <<>>, cursor |-> 0] : k \in {"status", "raise"}}
    \cup
    {[kind |-> "ok", sets |-> pg, cursor |-> c] : pg \in SearchPages, c \in {0, 1}}

\* every set of the page is appended, seen or not
AddAll(all, sets) == all \o sets

RECURSIVE AddNew(_, _)
\* the `for s in sets` loop: a set whose id is in seen_set_ids is skipped
AddNew(all, sets) ==
    IF sets = <<>> THEN all
    ELSE AddNew(IF Head(sets) \in Range(all) THEN all ELSE Append(all, Head(sets)),
                Tail(sets))

\* a search that never tests the page count
PageCapNever(page) == FALSE

\* `if page >= page_cap`
PageCapReached(page) == page >= PAGE_CAP

SearchInit ==
    /\ s_status = 1
    /\ s_page = 0
    /\ s_cursor = 0
    /\ s_all = <<>>
    /\ s_reqs = 0
    /\ s_pc = "loop"

\* `break`: the next status starts with page 0 and no cursor, or all_sets is
\* returned
SearchBreak ==
    IF s_status < Len(STATUSES)
    THEN s_status' = s_status + 1 /\ s_page' = 0 /\ s_cursor' = 0 /\ UNCHANGED s_pc
    ELSE s_pc' = "returned" /\ UNCHANGED <<s_status, s_page, s_cursor>>

\* one iteration of `while True` for the current status
SRequest(o) ==
    /\ s_pc = "loop"
    /\ s_reqs' = IF s_page = 0 THEN 1 ELSE s_reqs + 1
    /\ IF o.kind # "ok" \/ o.sets = <<>>
       THEN SearchBreak /\ UNCHANGED s_all
       ELSE /\ s_all' = AddNew(s_all, o.sets)
            /\ IF o.cursor = 0 \/ PageCapReached(s_page + 1)
               THEN SearchBreak
               ELSE /\ s_page' = s_page + 1
                    /\ s_cursor' = o.cursor
                    /\ UNCHANGED <<s_status, s_pc>>
    /\ UNCHANGED <<scanVars, tokenVars, loadVars, fetchVars, pageVars, userVars>>
    /\ UNCHANGED <<boardVars, resolveVars, bnVars, appVars>>

NextSearch == \E o \in SearchOutcomes : SRequest(o)

InitSearch == ScanIdle /\ FetchIdle /\ PageIdle /\ SearchInit /\ UserIdle /\ BoardIdle /\ ResolveIdle /\ BnIdle /\ JobIdle /\ GlobalIdle /\ CallIdle /\ PsIdle

\* the function runs on one thread that is never stopped: a loop iteration
\* that can be taken is taken
SpecSearch == InitSearch /\ [][NextSearch]_vars /\ WF_vars(NextSearch)

-----------------------------------------------------------------------------
(* Step 7 of global_bn_duo_scan: the four leaderboards, one block at a time.  *)
(* A block reads one counter dict (in its insertion order) and user_cache,    *)
(* builds a list and sorts it.  Display names are strings over a small alphabet, compared as    *)
(* Python compares str: character by character, by code point.  The names of  *)
(* distinct users differ even when case is ignored (osu! usernames do, and    *)
(* the placeholder carries the id).                                           *)

\* the greatest count an entry of a counter dict has
MaxCount == 2

BoardUsers == {7, 8, 9}

\* ord(c) for the characters names are made of
Ord(c) ==
    CASE c \in Range(DigitChars) -> 48 + DigitVal(c)
      [] c = ":" -> 58
      [] c = "B" -> 66
      [] c = "D" -> 68
      [] c = "I" -> 73
      [] c = "U" -> 85
      [] c = "_" -> 95
      [] c = "a" -> 97
      [] c = "b" -> 98
      [] c = "e" -> 101
      [] c = "r" -> 114
      [] c = "s" -> 115
      [] c = "u" -> 117

\* str.lower()
StrLower(s) ==
    [i \in 1..Len(s) |-> CASE s[i] = "B" -> "b" [] s[i] = "U" -> "u" [] OTHER -> s[i]]

\* s < t for two str
RECURSIVE StrLess(_, _)
StrLess(s, t) ==
    IF t = <<>> THEN FALSE
    ELSE IF s = <<>> THEN TRUE
    ELSE IF Ord(Head(s)) # Ord(Head(t)) THEN Ord(Head(s)) < Ord(Head(t))
    ELSE StrLess(Tail(s), Tail(t))

\* f"User_{uid}"
Placeholder(uid) == <<"U", "s", "e", "r", "_">> \o Str(uid)

\* user_cache.get(uid, f"User_{uid}")
NameOf(cache, uid) == Get(cache, uid, Placeholder(uid))

\* what user_cache can hold for the users of the counters: a display name or
\* the placeholder of a failed lookup
NameMaps ==
    {c \in [BoardUsers -> {<<"a">>, <<"B">>} \cup {Placeholder(u) : u \in BoardUsers}] :
        /\ \A u \in BoardUsers : c[u] \in {<<"a">>, <<"B">>, Placeholder(u)}
        /\ \A u, v \in BoardUsers : u # v => StrLower(c[u]) # StrLower(c[v])}

\* an entry of a counter dict with count c and one mode
CountData(c, mode) ==
    [count |-> c, last_date |-> c, mode_counts |-> [m \in {mode} |-> c]]

Reverse(seq) == [i \in 1..Len(seq) |-> seq[Len(seq) + 1 - i]]

\* the insertion orders the keys of a dict are given: ascending or descending
KeyOrders(keys) == {keys, Reverse(keys)}

\* dict.items() of the dict with the keys of `order` that `data` holds
Items(order, data) ==
    LET present == SelectSeq(order, LAMBDA k : k \in DOMAIN data)
    IN [i \in 1..Len(present) |-> [key |-> present[i], data |-> data[present[i]]]]

\* the pair_counts a scan can leave: a count for some of the pairs
PairDicts ==
    {[p \in keys |-> CountData(c[p], "osu")] :
        keys \in SUBSET {<<7, 8>>, <<7, 9>>, <<8, 9>>},
        c \in [{<<7, 8>>, <<7, 9>>, <<8, 9>>} -> 1..MaxCount]}

\* the mode_counts keys of the individual_counts entries the duo block reads
NomModeDicts ==
    {[u \in keys |-> CountData(1, md[u])] :
        keys \in SUBSET BoardUsers, md \in [BoardUsers -> Modes]}

\* a per-user counter dict: individual_counts, gd_counts or host_counts
UserDicts ==
    {[u \in keys |-> CountData(c[u], md[u])] :
        keys \in SUBSET BoardUsers,
        c \in [BoardUsers -> 1..MaxCount], md \in [BoardUsers -> Modes]}

\* sorted(d.keys()) for a dict keyed by mode names
SortedModes(d) == SelectSeq(<<"osu", "taiko">>, LAMBDA m : m \in DOMAIN d)

\* the two names compared as they are
NameOrderCaseSensitive(name1, name2) ==
    IF StrLess(name2, name1) THEN <<name2, name1>> ELSE <<name1, name2>>

\* if name1.lower() > name2.lower(): name1, name2 = name2, name1
NameOrder(name1, name2) ==
    IF StrLess(StrLower(name2), StrLower(name1)) THEN <<name2, name1>>
    ELSE <<name1, name2>>

\* the sort key (-count, name) of leaderboard.sort: k1 < k2
KeyLess(k1, k2) ==
    \/ k1[1] < k2[1]
    \/ k1[1] = k2[1] /\ StrLess(k1[2], k2[2])

\* list.sort(key=...): stable, so entries with equal keys keep their order
StableSort(seq, keys) ==
    LET rank(i) == 1 + Cardinality({j \in 1..Len(seq) :
                         \/ KeyLess(keys[j], keys[i])
                         \/ keys[j] = keys[i] /\ j < i})
    IN [r \in 1..Len(seq) |-> seq[CHOOSE i \in 1..Len(seq) : rank(i) = r]]

\* the duo block: one entry per item of pair_counts, sorted by
\* (-count, bn1_name)
DuoLeaderboard(items, indiv, cache) ==
    LET entry(i) ==
          LET id1 == items[i].key[1]
              id2 == items[i].key[2]
              names == NameOrder(NameOf(cache, id1), NameOf(cache, id2))
              bn1_nom_modes == IF id1 \in DOMAIN indiv
                               THEN SortedModes(indiv[id1].mode_counts) ELSE <<>>
              bn2_nom_modes == IF id2 \in DOMAIN indiv
                               THEN SortedModes(indiv[id2].mode_counts) ELSE <<>>
          IN [bn1_name |-> names[1],
              bn2_name |-> names[2],
              bn1_modes |-> bn1_nom_modes,
              bn2_modes |-> bn2_nom_modes,
              modes |-> SelectSeq(<<"osu", "taiko">>,
                          LAMBDA m : m \in Range(bn1_nom_modes) \cup Range(bn2_nom_modes)),
              count |-> items[i].data.count,
              last_date |-> items[i].data.last_date,
              mode_counts |-> items[i].data.mode_counts]
        list == [i \in 1..Len(items) |-> entry(i)]
    IN StableSort(list, [i \in 1..Len(list) |-> <<0 - list[i].count, list[i].bn1_name>>])

\* the individual, GD and host blocks: one entry per item of the counter
\* dict, sorted by (-count, username)
UserLeaderboard(items, cache) ==
    LET list == [i \in 1..Len(items) |->
                   [username |-> NameOf(cache, items[i].key),
                    count |-> items[i].data.count,
                    last_date |-> items[i].data.last_date,
                    user_id |-> items[i].key,
                    modes |-> SortedModes(items[i].data.mode_counts),
                    mode_counts |-> items[i].data.mode_counts]]
    IN StableSort(list, [i \in 1..Len(list) |-> <<0 - list[i].count, list[i].username>>])

\* what the duo block reads: pair_counts.items() and individual_counts
DuoInputs ==
    {[kind |-> "duo", items |-> Items(order, d), indiv |-> indiv] :
        d \in PairDicts, order \in KeyOrders(<<<<7, 8>>, <<7, 9>>, <<8, 9>>>>),
        indiv \in NomModeDicts}

\* what the individual, GD or host block reads: the items of its counter dict
UserInputs(kind) ==
    {[kind |-> kind, items |-> Items(order, d)] :
        d \in UserDicts, order \in KeyOrders(<<7, 8, 9>>)}

\* the names are resolved; one of the four blocks is about to run on the
\* counters of the scan
BoardInit ==
    /\ b_pc \in {"duo", "individual", "gd", "host"}
    /\ b_names \in NameMaps
    /\ b_in \in IF b_pc = "duo" THEN DuoInputs ELSE UserInputs(b_pc)
    /\ b_board = <<>>

BuildDuo ==
    /\ b_pc = "duo"
    /\ b_board' = DuoLeaderboard(b_in.items, b_in.indiv, b_names)
    /\ b_pc' = "done"
    /\ UNCHANGED <<b_names, b_in>>
    /\ UNCHANGED <<scanVars, tokenVars, loadVars, fetchVars, pageVars, searchVars,
                   userVars, resolveVars, bnVars, appVars>>

BuildUsers(kind) ==
    /\ b_pc = kind
    /\ b_board' = UserLeaderboard(b_in.items, b_names)
    /\ b_pc' = "done"
    /\ UNCHANGED <<b_names, b_in>>
    /\ UNCHANGED <<scanVars, tokenVars, loadVars, fetchVars, pageVars, searchVars,
                   userVars, resolveVars, bnVars, appVars>>

NextBoard ==
    \/ BuildDuo
    \/ \E kind \in {"individual", "gd", "host"} : BuildUsers(kind)

InitBoard == ScanIdle /\ FetchIdle /\ PageIdle /\ SearchIdle /\ UserIdle /\ BoardInit /\ ResolveIdle /\ BnIdle /\ JobIdle /\ GlobalIdle /\ CallIdle /\ PsIdle

SpecBoard == InitBoard /\ [][NextBoard]_vars

-----------------------------------------------------------------------------
(* resolve_users_parallel, called several times in one process.  Each lookup  *)
(* GET /users/{uid} is answered 200 with the user, 200 with a body that has   *)
(* no 'username', with another status, or not at all.                         *)

\* calls of resolve_users_parallel in the life of the process
MaxCalls == 2

\* the ids a caller can ask for; 0 is the sentinel for "no user"
ResolveIds == {0, 7, 8}

LookupResponses == {"200", "200_nokey", "404", "timeout"}

\* r.json()['username'] of user uid
Username(uid) == IF uid % 2 = 1 THEN <<"a">> ELSE <<"B">>

\* every non-zero id is looked up, cached or not
MissingIdsAll(user_ids, cache) == {uid \in user_ids : uid # 0}

\* missing_ids = [uid for uid in user_ids if uid not in USER_CACHE and uid != 0]
MissingIds(user_ids, cache) ==
    {uid \in user_ids : uid \notin DOMAIN cache /\ uid # 0}

\* a future whose fetch_user has not returned yet
Running == [resp |-> "running", name |-> <<>>]

\* fetch_user(uid): the pair it returns; every failure is caught inside
FetchUser(uid, resp) ==
    [resp |-> resp,
     name |-> IF resp = "200" THEN Username(uid) ELSE Placeholder(uid)]

\* {uid: USER_CACHE.get(uid, f"User_{uid}") for uid in user_ids if uid != 0}
BuildResult(user_ids, cache) ==
    [uid \in {u \in user_ids : u # 0} |-> NameOf(cache, uid)]

\* the call: with nothing missing it returns at once from the cache
RCall(ids) ==
    /\ r_pc \in {"idle", "returned"}
    /\ r_calls < MaxCalls
    /\ r_calls' = r_calls + 1
    /\ r_ids' = ids
    /\ r_known' = DOMAIN USER_CACHE
    /\ r_yielded' = {}
    /\ LET missing_ids == MissingIds(ids, USER_CACHE)
       IN IF missing_ids = {}
          THEN /\ r_futures' = EmptyDict
               /\ r_pc' = "returned"
               /\ r_ret' = [done |-> TRUE, value |-> BuildResult(ids, USER_CACHE)]
          ELSE /\ r_futures' = [uid \in missing_ids |-> Running]
               /\ r_pc' = "pool"
               /\ r_ret' = [done |-> FALSE]
    /\ UNCHANGED USER_CACHE
    /\ UNCHANGED <<scanVars, tokenVars, loadVars, fetchVars, pageVars, searchVars,
                   userVars, boardVars, bnVars, appVars>>

\* a pool worker returns from fetch_user(uid)
RFetch(uid, resp) ==
    /\ r_pc = "pool"
    /\ uid \in DOMAIN r_futures
    /\ r_futures[uid] = Running
    /\ r_futures' = [r_futures EXCEPT ![uid] = FetchUser(uid, resp)]
    /\ UNCHANGED <<USER_CACHE, r_pc, r_ids, r_known, r_yielded, r_ret, r_calls>>
    /\ UNCHANGED <<scanVars, tokenVars, loadVars, fetchVars, pageVars, searchVars,
                   userVars, boardVars, bnVars, appVars>>

\* one iteration of the as_completed loop: USER_CACHE[uid] = name
RCollect(uid) ==
    /\ r_pc = "pool"
    /\ uid \in DOMAIN r_futures
    /\ r_futures[uid] # Running
    /\ uid \notin r_yielded
    /\ r_yielded' = r_yielded \cup {uid}
    /\ USER_CACHE' = Put(USER_CACHE, uid, r_futures[uid].name)
    /\ UNCHANGED <<r_pc, r_ids, r_known, r_futures, r_ret, r_calls>>
    /\ UNCHANGED <<scanVars, tokenVars, loadVars, fetchVars, pageVars, searchVars,
                   userVars, boardVars, bnVars, appVars>>

\* the pool is left and the result is built from the cache
RReturn ==
    /\ r_pc = "pool"
    /\ r_yielded = DOMAIN r_futures
    /\ r_pc' = "returned"
    /\ r_ret' = [done |-> TRUE, value |-> BuildResult(r_ids, USER_CACHE)]
    /\ UNCHANGED <<USER_CACHE, r_ids, r_known, r_futures, r_yielded, r_calls>>
    /\ UNCHANGED <<scanVars, tokenVars, loadVars, fetchVars, pageVars, searchVars,
                   userVars, boardVars, bnVars, appVars>>

NextResolve ==
    \/ \E ids \in SUBSET ResolveIds : RCall(ids)
    \/ \E uid \in ResolveIds : \E resp \in LookupResponses : RFetch(uid, resp)
    \/ \E uid \in ResolveIds : RCollect(uid)
    \/ RReturn

InitResolve == ScanIdle /\ FetchIdle /\ PageIdle /\ SearchIdle /\ UserIdle /\ BoardIdle /\ ResolveIdle /\ BnIdle /\ JobIdle /\ GlobalIdle /\ CallIdle /\ PsIdle

SpecResolve == InitResolve /\ [][NextResolve]_vars

-----------------------------------------------------------------------------
(* generate_bn_leaderboard_for_user from the point where the listing of the   *)
(* nominated sets has returned: the counting loop set by set, the name        *)
(* resolution, the leaderboard.  A set of the listing carries its host, its   *)
(* dates and its beatmaps, each with its creator and mode.                    *)

\* the greatest number of nominated sets the listing returns
MaxSets == 2

\* sets a BN can have nominated: 201 has a guest difficulty in another mode,
\* 202 is a hybrid set of its host, 203 has no difficulty by its host
NominatedSets ==
    {[id |-> 201, user_id |-> 5, ranked_date |-> 3, last_updated |-> 1,
      beatmaps |-> <<[user_id |-> 5, mode |-> "osu"], [user_id |-> 6, mode |-> "taiko"]>>],
     [id |-> 202, user_id |-> 5, ranked_date |-> 0, last_updated |-> 4,
      beatmaps |-> <<[user_id |-> 5, mode |-> "taiko"], [user_id |-> 5, mode |-> "osu"]>>],
     [id |-> 203, user_id |-> 6, ranked_date |-> 2, last_updated |-> 2,
      beatmaps |-> <<[user_id |-> 5, mode |-> "osu"]>>],
     [id |-> 204, user_id |-> 6, ranked_date |-> 5, last_updated |-> 5,
      beatmaps |-> <<[user_id |-> 6, mode |-> "taiko"]>>]}

\* the listings: up to MaxSets sets in any order
Listings == UNION {[1..n -> NominatedSets] : n \in 0..MaxSets}

\* the modes of every beatmap of the set, whoever created it
OwnModesAll(bset) ==
    LET all == {bset.beatmaps[i].mode : i \in 1..Len(bset.beatmaps)}
    IN IF all # {} THEN all ELSE {"osu"}

\* host_modes: the modes of the beatmaps whose user_id is the set's, or
\* {'osu'} when there is none
OwnModes(bset) ==
    LET own == {bset.beatmaps[i].mode :
                  i \in {j \in 1..Len(bset.beatmaps) :
                           bset.beatmaps[j].user_id = bset.user_id}}
    IN IF own # {} THEN own ELSE {"osu"}

\* stats[mapper_id] of the defaultdict
StatsDefault == [count |-> 0, last_date |-> 0, modes |-> {}, mode_counts |-> EmptyDict]

\* the body of the counting loop for one set
CountSet(stats, bset) ==
    LET e == Get(stats, bset.user_id, StatsDefault)
        host_modes == OwnModes(bset)
        date == SetDate(bset)
    IN Put(stats, bset.user_id,
           [count |-> e.count + 1,
            modes |-> e.modes \cup host_modes,
            mode_counts |-> IncModeSet(e.mode_counts, host_modes),
            last_date |-> IF date # 0 /\ date > e.last_date THEN date ELSE e.last_date])

\* f"ID:{mid}"
IdName(mid) == <<"I", "D", ":">> \o Str(mid)

\* step 4: one entry per key of stats, sorted by (-total_gds, mapper_name)
BnLeaderboard(order, stats, cache) ==
    LET list == [i \in 1..Len(order) |->
                   [mapper_name |-> Get(cache, order[i], IdName(order[i])),
                    total_gds |-> stats[order[i]].count,
                    last_gd_date |-> stats[order[i]].last_date,
                    modes |-> stats[order[i]].modes,
                    mode_counts |-> stats[order[i]].mode_counts]]
    IN StableSort(list, [i \in 1..Len(list) |-> <<0 - list[i].total_gds, list[i].mapper_name>>])

\* the listing has returned
BnInit ==
    /\ g_pc = "count"
    /\ g_sets \in Listings
    /\ g_seen = 0
    /\ g_stats = EmptyDict
    /\ g_order = <<>>
    /\ g_names = EmptyDict
    /\ g_out = [done |-> FALSE]

\* `if not sets`: the empty leaderboard is returned
GEmpty ==
    /\ g_pc = "count"
    /\ g_sets = <<>>
    /\ g_pc' = "returned"
    /\ g_out' = [done |-> TRUE, kind |-> "empty", leaderboard |-> <<>>]
    /\ UNCHANGED <<g_sets, g_seen, g_stats, g_order, g_names>>
    /\ UNCHANGED <<scanVars, tokenVars, loadVars, fetchVars, pageVars, searchVars,
                   userVars, boardVars, resolveVars, appVars>>

\* one iteration of `for bset in sets`
GCount ==
    /\ g_pc = "count"
    /\ g_seen < Len(g_sets)
    /\ LET bset == g_sets[g_seen + 1]
       IN /\ g_stats' = CountSet(g_stats, bset)
          /\ g_order' = IF bset.user_id \in DOMAIN g_stats THEN g_order
                        ELSE Append(g_order, bset.user_id)
    /\ g_seen' = g_seen + 1
    /\ g_pc' = IF g_seen + 1 = Len(g_sets) THEN "resolve" ELSE "count"
    /\ UNCHANGED <<g_sets, g_names, g_out>>
    /\ UNCHANGED <<scanVars, tokenVars, loadVars, fetchVars, pageVars, searchVars,
                   userVars, boardVars, resolveVars, appVars>>

\* step 3: resolve_users_parallel gives every mapper a name or the placeholder
GResolve ==
    /\ g_pc = "resolve"
    /\ \E failed \in SUBSET (DOMAIN g_stats) :
          g_names' = [uid \in (DOMAIN g_stats) \ {0} |->
                        IF uid \in failed THEN Placeholder(uid) ELSE Username(uid)]
    /\ g_pc' = "build"
    /\ UNCHANGED <<g_sets, g_seen, g_stats, g_order, g_out>>
    /\ UNCHANGED <<scanVars, tokenVars, loadVars, fetchVars, pageVars, searchVars,
                   userVars, boardVars, resolveVars, appVars>>

\* the cancel flag is set when the names are resolved: {'error': 'Cancelled'}
GCancelled ==
    /\ g_pc = "build"
    /\ g_pc' = "returned"
    /\ g_out' = [done |-> TRUE, kind |-> "cancelled"]
    /\ UNCHANGED <<g_sets, g_seen, g_stats, g_order, g_names>>
    /\ UNCHANGED <<scanVars, tokenVars, loadVars, fetchVars, pageVars, searchVars,
                   userVars, boardVars, resolveVars, appVars>>

\* step 4 and the return
GBuild ==
    /\ g_pc = "build"
    /\ g_pc' = "returned"
    /\ g_out' = [done |-> TRUE, kind |-> "ok",
                 leaderboard |-> BnLeaderboard(g_order, g_stats, g_names)]
    /\ UNCHANGED <<g_sets, g_seen, g_stats, g_order, g_names>>
    /\ UNCHANGED <<scanVars, tokenVars, loadVars, fetchVars, pageVars, searchVars,
                   userVars, boardVars, resolveVars, appVars>>

NextBn == GEmpty \/ GCount \/ GResolve \/ GCancelled \/ GBuild

InitBn == ScanIdle /\ FetchIdle /\ PageIdle /\ SearchIdle /\ UserIdle /\ BoardIdle /\ ResolveIdle /\ BnInit /\ JobIdle /\ GlobalIdle /\ CallIdle /\ PsIdle

SpecBn == InitBn /\ [][NextBn]_vars

-----------------------------------------------------------------------------
(* app.py: the job table.  start_scan and cancel_scan run on request threads *)
(* (the server is threaded), run_scan_job on one background thread per job.   *)
(* A request handler is one step; the job thread is followed statement by     *)
(* statement where it reads or writes what the handlers share with it.        *)

\* jobs started (uuid4 job ids are 1, 2, ...)
MaxJobs == 2

\* how often the clock advances
MaxJobTicks == 3

CACHE_TTL_SECONDS == 600

SCAN_CACHE_TTL == 1800

ClockStep == CACHE_TTL_SECONDS \div 2 + 1

\* cache_key = f"{username.lower().strip()}:{mode}"; "" is a request without
\* a username
ScanKeys == {"peppy:gd"}

ScanResults == {"ok", "error", "raise"}

\* cleanup_old_entries on one of the three dicts: the entries not older than ttl
Fresh(d, at, ttl) ==
    [k \in {x \in DOMAIN d : ~(at - d[x].created_at > ttl)} |-> d[k]]

JobStatus(j, status, message) ==
    JOBS' = [JOBS EXCEPT ![j].status = status, ![j].message = message]

JobInit == JobIdle

\* time passes
JTick ==
    /\ j_clock < MaxJobTicks * ClockStep
    /\ j_clock' = j_clock + ClockStep
    /\ UNCHANGED <<JOBS, RESULTS_CACHE, SCAN_CACHE, j_event, j_pc, j_res>>
    /\ UNCHANGED <<scanVars, tokenVars, loadVars, fetchVars, pageVars, searchVars>>
    /\ UNCHANGED <<userVars, boardVars, resolveVars, bnVars>>
    /\ UNCHANGED <<gscanVars, callVars, psVars>>

\* POST /api/start_scan: cleanup, then 400 without a username, the cached
\* result as a job that is done at once, or a new job and its thread
StartScan(key) ==
    /\ Cardinality(DOMAIN j_pc) < MaxJobs
    /\ LET jobs == Fresh(JOBS, j_clock, CACHE_TTL_SECONDS)
           results == Fresh(RESULTS_CACHE, j_clock, CACHE_TTL_SECONDS)
           scans == Fresh(SCAN_CACHE, j_clock, SCAN_CACHE_TTL)
           job_id == Cardinality(DOMAIN j_pc) + 1
       IN /\ SCAN_CACHE' = scans
          /\ IF key = ""
             THEN /\ JOBS' = jobs
                  /\ RESULTS_CACHE' = results
                  /\ UNCHANGED <<j_event, j_pc, j_res>>
             ELSE IF key \in DOMAIN scans /\ j_clock - scans[key].created_at < SCAN_CACHE_TTL
             THEN /\ RESULTS_CACHE' = Put(results, job_id, [created_at |-> j_clock])
                  /\ JOBS' = Put(jobs, job_id,
                                 [status |-> "done", message |-> "Loaded from cache",
                                  has_event |-> FALSE, created_at |-> j_clock])
                  /\ j_pc' = Put(j_pc, job_id, "nothread")
                  /\ UNCHANGED <<j_event, j_res>>
             ELSE /\ RESULTS_CACHE' = results
                  /\ JOBS' = Put(jobs, job_id,
                                 [status |-> "running", message |-> "Starting...",
                                  has_event |-> TRUE, created_at |-> j_clock])
                  /\ j_event' = Put(j_event, job_id, FALSE)
                  /\ j_pc' = Put(j_pc, job_id, "scan")
                  /\ j_res' = Put(j_res, job_id, [key |-> key, result |-> "none"])
    /\ UNCHANGED j_clock
    /\ UNCHANGED <<scanVars, tokenVars, loadVars, fetchVars, pageVars, searchVars>>
    /\ UNCHANGED <<userVars, boardVars, resolveVars, bnVars>>
    /\ UNCHANGED <<gscanVars, callVars, psVars>>

\* POST /api/cancel_scan/<job_id> for a job that has a cancel_event (any
\* other job id is answered 404 and nothing changes)
CancelScan(j) ==
    /\ j \in DOMAIN JOBS
    /\ JOBS[j].has_event
    /\ j_event' = [j_event EXCEPT ![j] = TRUE]
    /\ JobStatus(j, "cancelled", "Cancelling...")
    /\ UNCHANGED <<RESULTS_CACHE, SCAN_CACHE, j_clock, j_pc, j_res>>
    /\ UNCHANGED <<scanVars, tokenVars, loadVars, fetchVars, pageVars, searchVars>>
    /\ UNCHANGED <<userVars, boardVars, resolveVars, bnVars>>
    /\ UNCHANGED <<gscanVars, callVars, psVars>>

\* update_progress(msg), called by the scan function on the job thread
JProgress(j) ==
    /\ j \in DOMAIN j_pc
    /\ j_pc[j] = "scan"
    /\ j \in DOMAIN JOBS
    /\ IF j_event[j]
       THEN JobStatus(j, "cancelled", "Cancelled.")
       ELSE JOBS' = [JOBS EXCEPT ![j].message = "progress"]
    /\ UNCHANGED <<RESULTS_CACHE, SCAN_CACHE, j_clock, j_event, j_pc, j_res>>
    /\ UNCHANGED <<scanVars, tokenVars, loadVars, fetchVars, pageVars, searchVars>>
    /\ UNCHANGED <<userVars, boardVars, resolveVars, bnVars>>
    /\ UNCHANGED <<gscanVars, callVars, psVars>>

\* the scan function returns a leaderboard or {'error': ...}, or raises
JScanReturn(j, r) ==
    /\ j \in DOMAIN j_pc
    /\ j_pc[j] = "scan"
    /\ j_res' = [j_res EXCEPT ![j].result = r]
    /\ j_pc' = [j_pc EXCEPT ![j] = IF r = "raise" THEN "except" ELSE "test"]
    /\ UNCHANGED <<JOBS, RESULTS_CACHE, SCAN_CACHE, j_clock, j_event>>
    /\ UNCHANGED <<scanVars, tokenVars, loadVars, fetchVars, pageVars, searchVars>>
    /\ UNCHANGED <<userVars, boardVars, resolveVars, bnVars>>
    /\ UNCHANGED <<gscanVars, callVars, psVars>>

\* line 98 and 101: `if cancel_event.is_set()`, `elif 'error' in result`
JTest(j) ==
    /\ j \in DOMAIN j_pc
    /\ j_pc[j] = "test"
    /\ j_pc' = [j_pc EXCEPT ![j] = IF j_event[j] THEN "w_cancelled"
                                  ELSE IF j_res[j].result = "error" THEN "w_error"
                                  ELSE "store"]
    /\ UNCHANGED <<JOBS, RESULTS_CACHE, SCAN_CACHE, j_clock, j_event, j_res>>
    /\ UNCHANGED <<scanVars, tokenVars, loadVars, fetchVars, pageVars, searchVars>>
    /\ UNCHANGED <<userVars, boardVars, resolveVars, bnVars>>
    /\ UNCHANGED <<gscanVars, callVars, psVars>>

\* line 106: RESULTS_CACHE[job_id] = {...}
JStore(j) ==
    /\ j \in DOMAIN j_pc
    /\ j_pc[j] = "store"
    /\ RESULTS_CACHE' = Put(RESULTS_CACHE, j, [created_at |-> j_clock])
    /\ j_pc' = [j_pc EXCEPT ![j] = "w_done"]
    /\ UNCHANGED <<JOBS, SCAN_CACHE, j_clock, j_event, j_res>>
    /\ UNCHANGED <<scanVars, tokenVars, loadVars, fetchVars, pageVars, searchVars>>
    /\ UNCHANGED <<userVars, boardVars, resolveVars, bnVars>>
    /\ UNCHANGED <<gscanVars, callVars, psVars>>

\* the final status write, lines 99-100, 102-103 or 112-124; JOBS[job_id]
\* raises KeyError when the entry is gone, which the except clause catches
JWrite(j) ==
    /\ j \in DOMAIN j_pc
    /\ j_pc[j] \in {"w_cancelled", "w_error", "w_done"}
    /\ IF j \notin DOMAIN JOBS
       THEN /\ j_pc' = [j_pc EXCEPT ![j] = "except"]
            /\ UNCHANGED <<JOBS, SCAN_CACHE>>
       ELSE /\ j_pc' = [j_pc EXCEPT ![j] = "ended"]
            /\ CASE j_pc[j] = "w_cancelled" ->
                      /\ JobStatus(j, "cancelled", "Scan cancelled by user.")
                      /\ UNCHANGED SCAN_CACHE
                 [] j_pc[j] = "w_error" ->
                      /\ JOBS' = [JOBS EXCEPT ![j].status = "error"]
                      /\ UNCHANGED SCAN_CACHE
                 [] OTHER ->
                      /\ JOBS' = [JOBS EXCEPT ![j].status = "done"]
                      /\ SCAN_CACHE' = Put(SCAN_CACHE, j_res[j].key,
                                           [created_at |-> j_clock])
    /\ UNCHANGED <<RESULTS_CACHE, j_clock, j_event, j_res>>
    /\ UNCHANGED <<scanVars, tokenVars, loadVars, fetchVars, pageVars, searchVars>>
    /\ UNCHANGED <<userVars, boardVars, resolveVars, bnVars>>
    /\ UNCHANGED <<gscanVars, callVars, psVars>>

\* lines 126-128: JOBS[job_id]['status'] = 'error'; a KeyError raised here
\* ends the thread
JExcept(j) ==
    /\ j \in DOMAIN j_pc
    /\ j_pc[j] = "except"
    /\ IF j \in DOMAIN JOBS
       THEN /\ JOBS' = [JOBS EXCEPT ![j].status = "error"]
            /\ j_pc' = [j_pc EXCEPT ![j] = "ended"]
       ELSE /\ j_pc' = [j_pc EXCEPT ![j] = "died"]
            /\ UNCHANGED JOBS
    /\ UNCHANGED <<RESULTS_CACHE, SCAN_CACHE, j_clock, j_event, j_res>>
    /\ UNCHANGED <<scanVars, tokenVars, loadVars, fetchVars, pageVars, searchVars>>
    /\ UNCHANGED <<userVars, boardVars, resolveVars, bnVars>>
    /\ UNCHANGED <<gscanVars, callVars, psVars>>

NextJobs ==
    \/ JTick
    \/ \E key \in ScanKeys \cup {""} : StartScan(key)
    \/ \E j \in 1..MaxJobs : CancelScan(j)
    \/ \E j \in 1..MaxJobs : JProgress(j)
    \/ \E j \in 1..MaxJobs : \E r \in ScanResults : JScanReturn(j, r)
    \/ \E j \in 1..MaxJobs : JTest(j)
    \/ \E j \in 1..MaxJobs : JStore(j)
    \/ \E j \in 1..MaxJobs : JWrite(j)
    \/ \E j \in 1..MaxJobs : JExcept(j)

InitJobs ==
    ScanIdle /\ FetchIdle /\ PageIdle /\ SearchIdle /\ UserIdle /\ BoardIdle /\ ResolveIdle /\ BnIdle /\ JobInit /\ GlobalIdle /\ CallIdle /\ PsIdle

SpecJobs == InitJobs /\ [][NextJobs]_vars

-----------------------------------------------------------------------------

(* app.py: GLOBAL_SCAN_STATUS.  run_global_bn_duo_scan is called by the       *)
(* scheduler on its own thread and by one new thread per accepted             *)
(* /api/trigger_global_scan request.                                          *)

\* threads that call run_global_bn_duo_scan
MaxScanThreads == 3

GlobalOutcomes == {"ok", "error", "raise"}

Thread(by, at) == [by |-> by, at |-> at, out |-> "none"]

Executing == {t \in DOMAIN gs_pc : gs_pc[t].at = "scan"}

\* the cron trigger fires; the scheduler runs one instance of a job at a time
SchedulerFire ==
    /\ Cardinality(DOMAIN gs_pc) < MaxScanThreads
    /\ \A t \in DOMAIN gs_pc :
          gs_pc[t].by = "scheduler" => gs_pc[t].at \in {"skipped", "ended"}
    /\ gs_pc' = Put(gs_pc, Cardinality(DOMAIN gs_pc) + 1, Thread("scheduler", "check"))
    /\ UNCHANGED <<gs_running, gs_runs>>
    /\ UNCHANGED <<scanVars, tokenVars, loadVars, fetchVars, pageVars, searchVars>>
    /\ UNCHANGED <<userVars, boardVars, resolveVars, bnVars>>
    /\ UNCHANGED <<jobVars, callVars, psVars>>

\* /api/trigger_global_scan with the right key while running is False (a
\* wrong key is answered 403, a set flag 'Scan already running')
TriggerGlobalScan ==
    /\ Cardinality(DOMAIN gs_pc) < MaxScanThreads
    /\ ~gs_running
    /\ gs_pc' = Put(gs_pc, Cardinality(DOMAIN gs_pc) + 1, Thread("trigger", "check"))
    /\ UNCHANGED <<gs_running, gs_runs>>
    /\ UNCHANGED <<scanVars, tokenVars, loadVars, fetchVars, pageVars, searchVars>>
    /\ UNCHANGED <<userVars, boardVars, resolveVars, bnVars>>
    /\ UNCHANGED <<jobVars, callVars, psVars>>

\* line 246: if GLOBAL_SCAN_STATUS['running']: return
GsCheck(t) ==
    /\ t \in DOMAIN gs_pc
    /\ gs_pc[t].at = "check"
    /\ gs_pc' = [gs_pc EXCEPT ![t].at = IF gs_running THEN "skipped" ELSE "set"]
    /\ UNCHANGED <<gs_running, gs_runs>>
    /\ UNCHANGED <<scanVars, tokenVars, loadVars, fetchVars, pageVars, searchVars>>
    /\ UNCHANGED <<userVars, boardVars, resolveVars, bnVars>>
    /\ UNCHANGED <<jobVars, callVars, psVars>>

\* line 250 and the call at line 258
GsSet(t) ==
    /\ t \in DOMAIN gs_pc
    /\ gs_pc[t].at = "set"
    /\ gs_running' = TRUE
    /\ gs_runs' = gs_runs + 1
    /\ gs_pc' = [gs_pc EXCEPT ![t].at = "scan"]
    /\ UNCHANGED <<scanVars, tokenVars, loadVars, fetchVars, pageVars, searchVars>>
    /\ UNCHANGED <<userVars, boardVars, resolveVars, bnVars>>
    /\ UNCHANGED <<jobVars, callVars, psVars>>

\* scan_logic.global_bn_duo_scan returns results or an error, or raises
GsScanEnd(t, out) ==
    /\ t \in DOMAIN gs_pc
    /\ gs_pc[t].at = "scan"
    /\ gs_pc' = [gs_pc EXCEPT ![t].at = "finally", ![t].out = out]
    /\ UNCHANGED <<gs_running, gs_runs>>
    /\ UNCHANGED <<scanVars, tokenVars, loadVars, fetchVars, pageVars, searchVars>>
    /\ UNCHANGED <<userVars, boardVars, resolveVars, bnVars>>
    /\ UNCHANGED <<jobVars, callVars, psVars>>

\* lines 265-268
GsFinally(t) ==
    /\ t \in DOMAIN gs_pc
    /\ gs_pc[t].at = "finally"
    /\ gs_running' = FALSE
    /\ gs_pc' = [gs_pc EXCEPT ![t].at = "ended"]
    /\ UNCHANGED gs_runs
    /\ UNCHANGED <<scanVars, tokenVars, loadVars, fetchVars, pageVars, searchVars>>
    /\ UNCHANGED <<userVars, boardVars, resolveVars, bnVars>>
    /\ UNCHANGED <<jobVars, callVars, psVars>>

NextGlobal ==
    \/ SchedulerFire
    \/ TriggerGlobalScan
    \/ \E t \in 1..MaxScanThreads : GsCheck(t)
    \/ \E t \in 1..MaxScanThreads : GsSet(t)
    \/ \E t \in 1..MaxScanThreads : \E out \in GlobalOutcomes : GsScanEnd(t, out)
    \/ \E t \in 1..MaxScanThreads : GsFinally(t)

InitGlobal ==
    ScanIdle /\ FetchIdle /\ PageIdle /\ SearchIdle /\ UserIdle /\ BoardIdle /\ ResolveIdle /\ BnIdle /\ JobIdle /\ GlobalIdle /\ CallIdle /\ PsIdle

SpecGlobal == InitGlobal /\ [][NextGlobal]_vars

-----------------------------------------------------------------------------

(* One call of process_set of the per-user GD scan (analyze_sets submits one  *)
(* per set of the user).  gder_logic.process_set keeps a set of the mappers  *)
(* seen in this set; scan_logic.process_set appends one entry per beatmap and *)
(* owner.  The deep fetch answers 200 with the full set, or fails, and then  *)
(* the entry of the listing is used, whose beatmaps have no owners list.     *)

\* beatmaps of a set
MaxBeats == 2

PsModules == {"gder_logic", "scan_logic"}

PsHosts == {5}

PsOwnerLists == {<<>>, <<5>>, <<6>>, <<6, 5>>, <<6, 7>>}

PsBeatmaps ==
    [owners : PsOwnerLists, user_id : {5, 6}, mode : Modes, last_updated : {1}]

PsSets == UNION {[1..n -> PsBeatmaps] : n \in 0..MaxBeats}

PsResponses == {"200", "other", "timeout", "no_token"}

\* full_set: r.json() on a 200, else bset
FullSet(module, beats, resp) ==
    IF resp = "200"
    THEN beats
    ELSE [i \in 1..Len(beats) |-> [beats[i] EXCEPT !.owners = <<>>]]

\* the users one beatmap is credited to, in the order the loop meets them
Credited(b) == IF b.owners # <<>> THEN b.owners ELSE <<b.user_id>>

GdEntry(module, b, uid) ==
    IF module = "gder_logic"
    THEN [mapper_id |-> uid, named |-> b.owners # <<>>, last_updated |-> b.last_updated,
          modes |-> <<>>]
    ELSE [mapper_id |-> uid, named |-> b.owners # <<>>, last_updated |-> b.last_updated,
          modes |-> <<b.mode>>]

RECURSIVE GdsOfBeatmap(_, _, _, _, _)
\* the inner loop over the owners (or the creator) of beatmap b, from index k
GdsOfBeatmap(module, b, host_id, k, gds) ==
    LET us == Credited(b)
    IN IF k > Len(us) THEN gds
       ELSE LET uid == us[k]
                seen == {gds[i].mapper_id : i \in 1..Len(gds)}
                skip == \/ uid = host_id
                        \/ module = "gder_logic" /\ uid \in seen
            IN GdsOfBeatmap(module, b, host_id, k + 1,
                            IF skip THEN gds ELSE Append(gds, GdEntry(module, b, uid)))

RECURSIVE GdsInSet(_, _, _, _, _)
\* the loop `for beatmap in beats`, from index k
GdsInSet(module, beats, host_id, k, gds) ==
    IF k > Len(beats) THEN gds
    ELSE GdsInSet(module, beats, host_id, k + 1,
                  GdsOfBeatmap(module, beats[k], host_id, 1, gds))

PsInit ==
    /\ ps_module \in PsModules
    /\ ps_set \in [beatmaps : PsSets]
    /\ ps_host \in PsHosts
    /\ ps_out = [done |-> FALSE]

\* process_set(bset, host_id, token)
ProcessSet(resp) ==
    /\ ~ps_out.done
    /\ ~(ps_module = "gder_logic" /\ resp = "no_token")
    /\ ps_out' = [done |-> TRUE,
                  full |-> resp = "200",
                  gds |-> GdsInSet(ps_module, FullSet(ps_module, ps_set.beatmaps, resp),
                                   ps_host, 1, <<>>)]
    /\ UNCHANGED <<ps_module, ps_set, ps_host>>
    /\ UNCHANGED <<scanVars, tokenVars, loadVars, fetchVars, pageVars, searchVars>>
    /\ UNCHANGED <<userVars, boardVars, resolveVars, bnVars>>
    /\ UNCHANGED <<jobVars, gscanVars, callVars>>

NextSet == \E resp \in PsResponses : ProcessSet(resp)

InitSet ==
    ScanIdle /\ FetchIdle /\ PageIdle /\ SearchIdle /\ UserIdle /\ BoardIdle /\ ResolveIdle /\ BnIdle /\ JobIdle /\ GlobalIdle /\ CallIdle /\ PsInit

SpecSet == InitSet /\ [][NextSet]_vars

-----------------------------------------------------------------------------

(* resolve_users_parallel called from several job threads at once (each job   *)
(* of start_scan runs on its own thread and resolves names through the one    *)
(* module-level USER_CACHE).  Each caller is followed as in the single call.  *)

\* job threads that resolve names
NumCallers == 2

Callers == 1..NumCallers

CallInit ==
    /\ c_pc = [t \in Callers |-> "idle"]
    /\ c_ids = [t \in Callers |-> {}]
    /\ c_futures = [t \in Callers |-> EmptyDict]
    /\ c_yielded = [t \in Callers |-> {}]
    /\ c_calls = 0

\* thread t calls resolve_users_parallel(ids, ...)
CCall(t, ids) ==
    /\ c_pc[t] \in {"idle", "returned"}
    /\ c_calls < MaxCalls
    /\ c_calls' = c_calls + 1
    /\ c_ids' = [c_ids EXCEPT ![t] = ids]
    /\ c_yielded' = [c_yielded EXCEPT ![t] = {}]
    /\ LET missing_ids == MissingIds(ids, USER_CACHE)
       IN /\ c_futures' = [c_futures EXCEPT ![t] = [uid \in missing_ids |-> Running]]
          /\ c_pc' = [c_pc EXCEPT ![t] = IF missing_ids = {} THEN "returned" ELSE "pool"]
    /\ UNCHANGED <<USER_CACHE, r_pc, r_ids, r_known, r_futures, r_yielded, r_ret, r_calls>>
    /\ UNCHANGED <<scanVars, tokenVars, loadVars, fetchVars, pageVars, searchVars>>
    /\ UNCHANGED <<userVars, boardVars, bnVars, jobVars, gscanVars, psVars>>

\* a pool worker of thread t returns from fetch_user(uid)
CFetch(t, uid, resp) ==
    /\ c_pc[t] = "pool"
    /\ uid \in DOMAIN c_futures[t]
    /\ c_futures[t][uid] = Running
    /\ c_futures' = [c_futures EXCEPT ![t][uid] = FetchUser(uid, resp)]
    /\ UNCHANGED <<c_pc, c_ids, c_yielded, c_calls>>
    /\ UNCHANGED <<USER_CACHE, r_pc, r_ids, r_known, r_futures, r_yielded, r_ret, r_calls>>
    /\ UNCHANGED <<scanVars, tokenVars, loadVars, fetchVars, pageVars, searchVars>>
    /\ UNCHANGED <<userVars, boardVars, bnVars, jobVars, gscanVars, psVars>>

\* one iteration of the as_completed loop of thread t: USER_CACHE[uid] = name
CCollect(t, uid) ==
    /\ c_pc[t] = "pool"
    /\ uid \in DOMAIN c_futures[t]
    /\ c_futures[t][uid] # Running
    /\ uid \notin c_yielded[t]
    /\ c_yielded' = [c_yielded EXCEPT ![t] = @ \cup {uid}]
    /\ USER_CACHE' = Put(USER_CACHE, uid, c_futures[t][uid].name)
    /\ UNCHANGED <<c_pc, c_ids, c_futures, c_calls>>
    /\ UNCHANGED <<r_pc, r_ids, r_known, r_futures, r_yielded, r_ret, r_calls>>
    /\ UNCHANGED <<scanVars, tokenVars, loadVars, fetchVars, pageVars, searchVars>>
    /\ UNCHANGED <<userVars, boardVars, bnVars, jobVars, gscanVars, psVars>>

\* thread t leaves its pool and returns
CReturn(t) ==
    /\ c_pc[t] = "pool"
    /\ c_yielded[t] = DOMAIN c_futures[t]
    /\ c_pc' = [c_pc EXCEPT ![t] = "returned"]
    /\ UNCHANGED <<c_ids, c_futures, c_yielded, c_calls>>
    /\ UNCHANGED <<USER_CACHE, r_pc, r_ids, r_known, r_futures, r_yielded, r_ret, r_calls>>
    /\ UNCHANGED <<scanVars, tokenVars, loadVars, fetchVars, pageVars, searchVars>>
    /\ UNCHANGED <<userVars, boardVars, bnVars, jobVars, gscanVars, psVars>>

NextShared ==
    \/ \E t \in Callers : \E ids \in SUBSET ResolveIds : CCall(t, ids)
    \/ \E t \in Callers : \E uid \in ResolveIds : \E resp \in LookupResponses :
          CFetch(t, uid, resp)
    \/ \E t \in Callers : \E uid \in ResolveIds : CCollect(t, uid)
    \/ \E t \in Callers : CReturn(t)

InitShared ==
    ScanIdle /\ FetchIdle /\ PageIdle /\ SearchIdle /\ UserIdle /\ BoardIdle /\ ResolveIdle /\ BnIdle /\ JobIdle /\ GlobalIdle /\ CallInit /\ PsIdle

SpecShared == InitShared /\ [][NextShared]_vars

-----------------------------------------------------------------------------

(* Properties of the global scan *)

\* what a cache file holds, whatever its state
Persisted(f) ==
    IF f.kind = "json" /\ f.isdict THEN f.data
    ELSE [scanned_ids |-> {}, pair_counts |-> EmptyDict,
          individual_counts |-> EmptyDict, gd_counts |-> EmptyDict,
          host_counts |-> EmptyDict, user_modes |-> EmptyDict]

\* the sets whose deep-fetch succeeded in the main / the retry pass of the run
OkMain == {s \in DOMAIN future_to_set : future_to_set[s] \notin {"running", "fail"}}
OkRetry == {s \in DOMAIN retry_futures : retry_futures[s] \notin {"running", "fail"}}

\* the sets that failed in both passes of the run
PermFailed == {s \in DOMAIN retry_futures : retry_futures[s] = "fail"}

\* the result the run got for a successfully fetched set
ResultOf(s) ==
    ProcessNominatorSet(Ref(s), IF s \in OkMain THEN future_to_set[s]
                                ELSE retry_futures[s])

NomIds(s) ==
    {ResultOf(s).nominations[i].nominator_id : i \in 1..Len(ResultOf(s).nominations)}

RunOver == pc \in {"save", "idle"} /\ runs >= 1

\* C1: every set-id in scanned_ids has had its contribution added exactly
\* once to each counter: the merge of its nominations, pairs and GDs, and the
\* credit of its host.
C1_ExactlyOnce ==
    \A s \in scanned_ids : applied[s].merge = 1 /\ applied[s].host = 1

CountsGe(new, old) ==
    \A k \in DOMAIN old :
        /\ k \in DOMAIN new
        /\ new[k].count >= old[k].count
        /\ \A m \in DOMAIN old[k].mode_counts :
              /\ m \in DOMAIN new[k].mode_counts
              /\ new[k].mode_counts[m] >= old[k].mode_counts[m]

FileGe(new, old) ==
    /\ old.scanned_ids \subseteq new.scanned_ids
    /\ CountsGe(new.pair_counts, old.pair_counts)
    /\ CountsGe(new.individual_counts, old.individual_counts)
    /\ CountsGe(new.gd_counts, old.gd_counts)
    /\ CountsGe(new.host_counts, old.host_counts)

\* C3: every write of the cache leaves a persisted scanned_ids that is a
\* superset of the one before, and every persisted count and per-mode
\* sub-count at least as large as before.
C3_Monotone == [][FileGe(Persisted(file'), Persisted(file))]_vars

C3_Witness ==
    /\ pc = "idle"
    /\ runs >= 2
    /\ saves = 1
    /\ prev_file.kind = "json"
    /\ Persisted(prev_file).scanned_ids # {}
    /\ Persisted(file).scanned_ids # Persisted(prev_file).scanned_ids
    /\ Persisted(file).host_counts # Persisted(prev_file).host_counts

\* the merges of the sets of S in ascending id order
RECURSIVE MergeAscending(_, _, _, _)
MergeAscending(c, S, futures, pass) ==
    IF S = {} THEN c
    ELSE LET s == CHOOSE x \in S : \A y \in S : x <= y
         IN MergeAscending(
              MergeSet(c, Ref(s), ProcessNominatorSet(Ref(s), futures[s]), pass),
              S \ {s}, futures, pass)

\* C4: whatever the order in which the futures completed and were merged, the
\* counters and user_modes at the end of the passes are those that merging
\* the same results in ascending id order gives.
C4_MergeOrderIndependent ==
    pc = "save" =>
        Mem = MergeAscending(
                MergeAscending(start_counts, OkMain, future_to_set, "main"),
                OkRetry, retry_futures, "retry")

\* three sets were merged, and not in ascending order
C4_Witness ==
    /\ pc = "save"
    /\ Len(merge_order) = 3
    /\ merge_order[1] > merge_order[2]
    /\ merge_order[2] > merge_order[3]

\* the number of successfully fetched sets of the run that satisfy P
OkCount(P(_)) == Cardinality({s \in OkMain \cup OkRetry : P(s)})

\* C5: a set that failed in both passes is in scanned_ids neither in memory
\* nor in the cache file, and is a new set of the next run; the counters hold
\* the whole contribution of every set of the run that was fetched.
C5_DegradedAccounting ==
    /\ RunOver =>
         /\ \A s \in PermFailed :
               s \notin scanned_ids /\ s \notin Persisted(file).scanned_ids
         /\ scanned_ids = loaded_ids \cup OkMain \cup OkRetry
         /\ \A u \in DOMAIN individual_counts :
               individual_counts[u].count =
                   EntryOf(start_counts.individual_counts, u).count
                   + LET Nominated(s) == u \in NomIds(s) IN OkCount(Nominated)
         /\ \A p \in DOMAIN pair_counts :
               pair_counts[p].count =
                   EntryOf(start_counts.pair_counts, p).count
                   + LET Both(s) == {p[1], p[2]} \subseteq NomIds(s) IN OkCount(Both)
         /\ \A u \in DOMAIN gd_counts :
               gd_counts[u].count =
                   EntryOf(start_counts.gd_counts, u).count
                   + LET Guest(s) == u \in DOMAIN ResultOf(s).gd_user_modes
                     IN OkCount(Guest)
         /\ \A s \in OkMain \cup OkRetry :
               /\ NomIds(s) \subseteq DOMAIN individual_counts
               /\ DOMAIN ResultOf(s).gd_user_modes \subseteq DOMAIN gd_counts
               /\ \A a \in NomIds(s) : \A b \in NomIds(s) :
                     a < b => <<a, b>> \in DOMAIN pair_counts
               /\ ResultOf(s).mapset_host_id \in DOMAIN host_counts
         /\ \A h \in DOMAIN host_counts :
               /\ host_counts[h].count = EntryOf(start_counts.host_counts, h).count
               /\ \A m \in Modes :
                     Get(host_counts[h].mode_counts, m, 0) =
                         Get(EntryOf(start_counts.host_counts, h).mode_counts, m, 0)
                         + LET Hosted(s) == /\ ResultOf(s).mapset_host_id = h
                                            /\ m \in ResultOf(s).host_modes
                           IN OkCount(Hosted)
                         - (IF m = "osu"
                            THEN Cardinality({s \in OkMain :
                                                ResultOf(s).mapset_host_id = h})
                            ELSE 0)
    \* (a run whose search returned nothing ends at step 2, before new_sets)
    /\ (carried \cap cur_sets) \subseteq new_sets

\* a run ended with one set failed for good and two merged, and the next run
\* has started with the failed set among its new sets
C5_Witness ==
    /\ pc = "idle"
    /\ runs >= 2
    /\ saves = 1
    /\ PermFailed # {}
    /\ carried # {}
    /\ Cardinality(OkMain \cup OkRetry) >= 1
    /\ OkRetry # {}

\* C6: a set whose id was in the scanned_ids loaded at the start of the run
\* is not a new set, is submitted to neither pool and is not merged in the run.
C6_IncrementalSkip ==
    \A s \in loaded_ids :
        /\ s \notin new_sets
        /\ s \notin DOMAIN future_to_set
        /\ s \notin DOMAIN retry_futures
        /\ s \notin Range(merge_order)

C6_Witness ==
    /\ loaded_ids # {}
    /\ loaded_ids \subseteq cur_sets
    /\ Len(merge_order) >= 1
    /\ pc = "save"

-----------------------------------------------------------------------------
(* Properties of the cache file *)

\* C8: after a cache write, finished or cut short, _load_cache returns the
\* complete previous contents or the complete new contents.
C8_AtomicSave ==
    (pc = "idle" /\ saves = 1) =>
        LoadCache(file).value \in {LoadCache(prev_file).value, CacheData(Mem)}

\* the cache_version _load_cache reads from a JSON object
VersionOf(f) == Get(f.data, "cache_version", 1)

Parsable(f) == f.kind = "json" /\ f.isdict

\* C9 as stated: _load_cache does not raise; it returns the empty cache for a
\* missing file, an unparsable file and a cache_version other than
\* CACHE_VERSION, and the stored cache when the version is CACHE_VERSION.
C9_EmptyOnAnyMismatch ==
    lc_out.done =>
        /\ ~lc_out.raised
        /\ IF Parsable(lc_file) /\ VersionOf(lc_file) = CACHE_VERSION
           THEN lc_out.value = lc_file.data
           ELSE lc_out.value = EmptyCache

\* C9 amended: _load_cache does not raise; it returns the empty cache for a
\* missing file, an unparsable file and a cache_version (1 when absent) lower
\* than CACHE_VERSION, and the stored cache when the version is CACHE_VERSION
\* or higher.
C9_EmptyOnOlderVersion ==
    lc_out.done =>
        /\ ~lc_out.raised
        /\ IF Parsable(lc_file) /\ VersionOf(lc_file) >= CACHE_VERSION
           THEN lc_out.value = lc_file.data
           ELSE lc_out.value = EmptyCache
        /\ lc_out.value = EmptyCache =>
              /\ lc_out.value.scanned_ids = {}
              /\ lc_out.value.pair_counts = EmptyDict
              /\ lc_out.value.cache_version = CACHE_VERSION

\* _load_cache has returned the stored cache of a file whose cache_version
\* is higher than CACHE_VERSION
C9_Witness ==
    /\ lc_out.done
    /\ Parsable(lc_file)
    /\ VersionOf(lc_file) > CACHE_VERSION
    /\ lc_file.data.scanned_ids # {}
    /\ lc_out.value = lc_file.data

-----------------------------------------------------------------------------
(* Properties of the token manager *)

\* C10: at most one credential exchange is in progress at any time.
C10_SingleFlight ==
    Cardinality({w \in Workers : w \in DOMAIN wpc /\ wpc[w] = "exchange"}) <= 1


-----------------------------------------------------------------------------
(* Properties of one call of process_nominator_set *)

CountOf(log, what) == Cardinality({i \in 1..Len(log) : log[i] = what})

\* the first detail response was a 401
First401 == f_resp # <<>> /\ f_resp[1] = "401"

\* the detail fetch failed: no request could be made, or the last response
\* was not a well-formed 200
DetailFailed == f_resp = <<>> \/ f_resp[Len(f_resp)] # "200"

\* C11, the request counts: the detail request is issued once, and after a
\* 401 the token is refreshed once and the request issued once more
C11_Counts ==
    f_ret.done =>
        /\ CountOf(f_log, "detail") = (IF First401 THEN 2 ELSE 1)
        /\ CountOf(f_log, "refresh") = (IF First401 THEN 1 ELSE 0)

\* C11, the degraded result: a failed detail fetch returns a null host id
C11_FailureDegrades ==
    (f_ret.done /\ DetailFailed) => f_ret.res.mapset_host_id = 0

\* C11: for each set handled by process_nominator_set the detail request is
\* issued once; on a 401 the token is refreshed exactly once and the request
\* reissued exactly once; a second 401 or any other failure (non-200 status,
\* timeout, exception, malformed body) yields the degraded result whose host
\* id is null
C11_DetailRetry == C11_Counts /\ C11_FailureDegrades


-----------------------------------------------------------------------------
(* Properties of the retry pass *)

\* the sets whose deep-fetch degraded in the main pass of the run
MainDegraded == {s \in DOMAIN future_to_set : future_to_set[s] = "fail"}

TimesMerged(s) == Cardinality({i \in 1..Len(merge_order) : merge_order[i] = s})

-----------------------------------------------------------------------------
(* Properties of the result of a run *)

\* C15: global_bn_duo_scan returns an explicit error only when authentication
\* fails or the corpus search returns zero sets.
C15_ErrorOnlyAuthOrNoSets ==
    result \in {"none", "running", "ok", "error_auth", "error_nosets"}

\* C16: a run in which the token provider failed to supply a token, be it to
\* a deep-fetch worker, ends with an explicit error and does not report
\* success.
C16_TokenFailureFatal ==
    (pc = "idle" /\ token_lost) => result # "ok"

-----------------------------------------------------------------------------
(* Properties of the worker pools *)

\* a deep-fetch worker of either pool returns in this step
WorkerReturns ==
    \/ \E s \in DOMAIN future_to_set \cap DOMAIN future_to_set' :
          future_to_set[s] = "running" /\ future_to_set'[s] # "running"
    \/ \E s \in DOMAIN retry_futures \cap DOMAIN retry_futures' :
          retry_futures[s] = "running" /\ retry_futures'[s] # "running"

SharedUnchanged ==
    UNCHANGED <<scanned_ids, pair_counts, individual_counts, gd_counts,
                host_counts, user_modes>>

\* the coordinator takes one finished future out of as_completed in this step
CollectsResult ==
    \/ \E s \in collected' \ collected : future_to_set[s] # "running"
    \/ \E s \in retry_collected' \ retry_collected : retry_futures[s] # "running"

-----------------------------------------------------------------------------
(* Properties of a per-user scan *)

\* C14: once the cancel flag has been set no further network request (listing
\* page, set deep-fetch, user lookup) is started, and the function returns the
\* cancelled outcome instead of a leaderboard.
C14_CancelStops ==
    /\ u_late = 0
    /\ (u_out.done /\ u_cancel) => u_out.kind # "result"


\* C17: every call of a per-user scan function ends by returning a populated
\* result, an explicit error or the cancelled outcome; it never raises and
\* never returns an empty leaderboard as a success when upstream requests of
\* the call failed.
C17_Outcome ==
    u_out.done =>
        /\ u_out.kind \in {"result", "error", "cancelled"}
        /\ ~(u_out.kind = "result" /\ u_out.empty /\ u_upfail)


-----------------------------------------------------------------------------
(* Properties of the per-user listing fetchers *)

\* the items of one set type, in order
WholeList(f, script, t) == [i \in 1..ListLen(f, script) |-> <<t, i>>]

\* the concatenation of the pages of the scripted endpoint
Expected(f, script) ==
    WholeList(f, script, 1) \o
    (IF NumTypes(f) = 2 THEN WholeList(f, script, 2) ELSE <<>>)

\* the requests for pages 1 .. N+1 of every set type
ExpectedReqs(f, script) ==
    [j \in 1..(NumTypes(f) * (script.full + 1)) |->
        <<((j - 1) \div (script.full + 1)) + 1,
          ((j - 1) % (script.full + 1)) * Limit(f)>>]

\* C18: against an endpoint that returns N full pages and then a page shorter
\* than the page limit, every per-user listing fetcher returns exactly the
\* concatenation of the N+1 pages in order and issues no request for page N+2.
C18_StopsAtShortPage ==
    (p_pc = "returned" /\ p_script.fault.at = 0) =>
        /\ p_all = Expected(p_fetcher, p_script)
        /\ p_reqs = ExpectedReqs(p_fetcher, p_script)

\* the response with a status other than 200 has been received
FaultHit == p_script.fault.at # 0 /\ Len(p_reqs) >= p_script.fault.at

RECURSIVE Gathered(_, _, _, _)
\* what the 200 responses to the first k requests brought
Gathered(f, script, reqs, k) ==
    IF k = 0 THEN <<>>
    ELSE Gathered(f, script, reqs, k - 1) \o
         (IF k = script.fault.at THEN <<>>
          ELSE PageData(f, script, reqs[k][1], reqs[k][2]))

IsPrefix(a, b) == Len(a) <= Len(b) /\ \A i \in 1..Len(a) : a[i] = b[i]

\* C20: a response whose status is neither 200 nor retryable is never fatal:
\* the fetcher does not raise, and it returns the items gathered before it.
C20_NonFatal ==
    FaultHit =>
        /\ p_pc # "raised"
        /\ p_pc = "returned" =>
              IsPrefix(Gathered(p_fetcher, p_script, p_reqs, p_script.fault.at - 1),
                       p_all)


-----------------------------------------------------------------------------
(* Properties of the corpus search *)

\* C19, the ceiling: at most PAGE_CAP page requests are issued per status
C19_Bounded == [](s_reqs <= PAGE_CAP)

\* C19, the gathered sets are kept: all_sets only grows
C19_KeepsSets == [][IsPrefix(s_all, s_all')]_vars

-----------------------------------------------------------------------------
(* Properties of the merge of one set *)

\* the step merges the result of set s (an iteration of either loop)
MergedNow(s) == applied'[s].merge = applied[s].merge + 1

\* the result that iteration holds
StepResult(s) ==
    ProcessNominatorSet(Ref(s), IF pc = "main" THEN future_to_set[s]
                                ELSE retry_futures[s])

\* mode_counts.get(m, 0)
ModeCount(e, m) == Get(e.mode_counts, m, 0)

\* C21: the merge of a set adds exactly one to the individual count of every
\* user of its nomination list, however often the user is listed, and adds to
\* the user's per-mode counts one per ruleset of a nomination of theirs, with
\* 'osu' standing for an empty ruleset list; no other entry changes.
C21_IndividualOncePerSet ==
    [][\A s \in SetIds : MergedNow(s) =>
         LET noms == StepResult(s).nominations
             users == {noms[i].nominator_id : i \in 1..Len(noms)}
         IN /\ DOMAIN individual_counts' = (DOMAIN individual_counts) \cup users
            /\ \A u \in (DOMAIN individual_counts) \ users :
                  individual_counts'[u] = individual_counts[u]
            /\ \A u \in users :
                  /\ individual_counts'[u].count =
                        EntryOf(individual_counts, u).count + 1
                  /\ \E i \in 1..Len(noms) :
                        /\ noms[i].nominator_id = u
                        /\ LET rs == IF noms[i].rulesets = <<>> THEN <<"osu">>
                                     ELSE noms[i].rulesets
                           IN \A m \in Modes :
                                ModeCount(individual_counts'[u], m) =
                                  ModeCount(EntryOf(individual_counts, u), m)
                                    + CountOf(rs, m)
      ]_vars

\* sets 101 (a nomination without rulesets) and 103 (user 12 listed twice)
\* have both been merged
C21_Witness ==
    /\ {101, 103} \subseteq scanned_ids
    /\ 12 \in DOMAIN individual_counts
    /\ individual_counts[12].count = 1
    /\ 8 \in DOMAIN individual_counts
    /\ ModeCount(individual_counts[8], "osu") = 1

\* the pair keys of the counters a cache file restores to
LoadedPairKeys(f) == DOMAIN Restore(LoadCache(f).value).pair_counts

\* C22: the merge of a set adds exactly one to the count of each unordered
\* pair of distinct users of its nomination list and leaves the other pairs
\* alone; every key (a, b) of pair_counts, in memory and as restored from the
\* cache file, has a < b, so a pair is never held under both orders.
C22_PairsOrdered ==
    /\ [](/\ \A p \in DOMAIN pair_counts : p[1] < p[2]
          /\ \A p \in LoadedPairKeys(file) : p[1] < p[2])
    /\ [][\A s \in SetIds : MergedNow(s) =>
            LET noms == StepResult(s).nominations
                users == {noms[i].nominator_id : i \in 1..Len(noms)}
                duos == {<<a, b>> : a \in users, b \in users} \cap
                          {p \in Nat \X Nat : p[1] < p[2]}
            IN /\ DOMAIN pair_counts' = (DOMAIN pair_counts) \cup duos
               /\ \A p \in duos :
                     pair_counts'[p].count = EntryOf(pair_counts, p).count + 1
               /\ \A p \in (DOMAIN pair_counts) \ duos :
                     pair_counts'[p] = pair_counts[p]
         ]_vars

\* the second run restored the pairs of sets 101 and 103 from the cache; set
\* 103 lists user 12 before user 7
C22_Witness ==
    /\ runs = 2
    /\ {101, 103} \subseteq loaded_ids
    /\ <<7, 12>> \in DOMAIN pair_counts
    /\ <<7, 12>> \in LoadedPairKeys(file)

\* C23: the merge of a set adds one to the pair's count of each mode in the
\* intersection of the two nominators' rulesets ('osu' for an empty list), or
\* of each mode in their union when the intersection is empty, and changes no
\* other mode of the pair.
C23_PairModes ==
    [][\A s \in SetIds : MergedNow(s) =>
         LET noms == StepResult(s).nominations
             scope(i) == IF noms[i].rulesets = <<>> THEN {"osu"}
                         ELSE Range(noms[i].rulesets)
         IN \A a, b \in {noms[i].nominator_id : i \in 1..Len(noms)} :
              a < b =>
                \E i, j \in 1..Len(noms) :
                   /\ noms[i].nominator_id = a
                   /\ noms[j].nominator_id = b
                   /\ LET r1 == scope(i)
                          r2 == scope(j)
                          credited == IF r1 \cap r2 # {} THEN r1 \cap r2
                                      ELSE r1 \cup r2
                      IN \A m \in Modes :
                           ModeCount(pair_counts'[<<a, b>>], m) =
                             ModeCount(EntryOf(pair_counts, <<a, b>>), m)
                               + (IF m \in credited THEN 1 ELSE 0)
      ]_vars

\* sets 101 and 103 are merged: users 7 (osu, taiko) and 8 (no rulesets)
\* share osu alone; users 7 (taiko) and 9 (osu) share no mode and are credited
\* in both; users 7 and 12 share taiko
C23_Witness ==
    /\ {101, 103} \subseteq scanned_ids
    /\ <<7, 8>> \in DOMAIN pair_counts
    /\ pair_counts[<<7, 8>>].mode_counts = [m \in {"osu"} |-> 1]
    /\ <<7, 9>> \in DOMAIN pair_counts
    /\ pair_counts[<<7, 9>>].mode_counts = [m \in {"osu", "taiko"} |-> 1]
    /\ <<7, 12>> \in DOMAIN pair_counts
    /\ pair_counts[<<7, 12>>].mode_counts = [m \in {"taiko"} |-> 1]

\* the users other than the host who own a difficulty of set s, read off the
\* detail response: the owners list of the beatmap, or its creator when the
\* list is empty
Guests(s) ==
    LET bms == Detail(s).beatmaps
        named == UNION {Range(bms[i].owners) \cup {bms[i].user_id} : i \in 1..Len(bms)}
    IN {u \in named \ {0, Detail(s).user_id} :
          \E i \in 1..Len(bms) :
             IF bms[i].owners # <<>>
             THEN \E k \in 1..Len(bms[i].owners) : bms[i].owners[k] = u
             ELSE bms[i].user_id = u}

\* C24: the merge of a deep-fetched set adds exactly one to the GD count of
\* every user other than the host who owns one or more of its difficulties,
\* however many, and changes no other GD entry; the host gets no GD credit
\* from the set.
C24_GdOncePerSet ==
    [][\A s \in SetIds : MergedNow(s) =>
         /\ DOMAIN gd_counts' = (DOMAIN gd_counts) \cup Guests(s)
         /\ \A u \in Guests(s) :
               gd_counts'[u].count = EntryOf(gd_counts, u).count + 1
         /\ \A u \in (DOMAIN gd_counts) \ Guests(s) :
               gd_counts'[u] = gd_counts[u]
         /\ EntryOf(gd_counts', Detail(s).user_id) =
               EntryOf(gd_counts, Detail(s).user_id)
      ]_vars

\* set 103 alone is merged: user 6 owns both of its difficulties and has one
\* credit, the host 5 is in the owners list of one and has none
C24_Witness ==
    /\ scanned_ids = {103}
    /\ DOMAIN gd_counts = {6}
    /\ gd_counts[6].count = 1
    /\ gd_counts[6].mode_counts = [m \in {"osu", "taiko"} |-> 1]

-----------------------------------------------------------------------------
(* Properties of the host credit *)

\* the modes of the host's own difficulties of set s, or the modes of the set
\* when the host owns none
HostOwnModes(s) ==
    LET bms == Detail(s).beatmaps
        h == Detail(s).user_id
        own == {bms[i].mode : i \in {j \in 1..Len(bms) :
                   IF bms[j].owners # <<>> THEN h \in Range(bms[j].owners)
                   ELSE bms[j].user_id = h}}
    IN IF own # {} THEN own ELSE {bms[i].mode : i \in 1..Len(bms)}

\* host_counts as the run found it in the cache, before step 3.5
HostBase == Restore(LoadCache(prev_file).value).host_counts

\* what the run has added to host h's count of mode m
HostModeGain(h, m) ==
    ModeCount(EntryOf(host_counts, h), m) - ModeCount(EntryOf(HostBase, h), m)

\* C25: when a run has scanned every new set, each host's per-mode count has
\* grown by one for each new set of theirs that has the mode among the host's
\* own difficulties (or among the set's modes when the host owns none), and
\* by nothing else, whichever pass fetched the set.
C25_HostModes ==
    (RunOver /\ new_sets \subseteq scanned_ids) =>
        \A s \in new_sets : \A m \in Modes :
            HostModeGain(Detail(s).user_id, m) =
              Cardinality({t \in new_sets : /\ Detail(t).user_id = Detail(s).user_id
                                            /\ m \in HostOwnModes(t)})

\* the same when no set was fetched by the retry pass
C25_MainPassOnly ==
    (RunOver /\ new_sets \subseteq scanned_ids /\ OkRetry = {}) =>
        \A s \in new_sets : \A m \in Modes :
            HostModeGain(Detail(s).user_id, m) =
              Cardinality({t \in new_sets : /\ Detail(t).user_id = Detail(s).user_id
                                            /\ m \in HostOwnModes(t)})

-----------------------------------------------------------------------------
(* Properties of last_date *)

MaxDate(a, b) == IF a >= b THEN a ELSE b

\* the greatest of a finite set of dates, 0 (the empty date) when there is none
MaxOf(dates) == IF dates = {} THEN 0 ELSE CHOOSE d \in dates : \A e \in dates : e <= d

\* every entry of counts is still in counts2, with a last_date no smaller
DatesKept(counts, counts2) ==
    \A k \in DOMAIN counts :
        k \in DOMAIN counts2 /\ counts2[k].last_date >= counts[k].last_date

\* the step leaves, in every entry of counts2 under a key of keys, the greater
\* of the entry's last_date and the date; the other entries keep theirs
DatesMerged(counts, counts2, keys, date) ==
    /\ \A k \in keys :
          counts2[k].last_date = MaxDate(EntryOf(counts, k).last_date, date)
    /\ \A k \in (DOMAIN counts) \ keys :
          counts2[k].last_date = counts[k].last_date

\* C26: the last_date of an entry is the greatest date of the sets credited
\* to it so far.  Every entry starts without a date; the merge of a set leaves
\* in each entry it credits the greater of the entry's last_date and the
\* set's date, the host credit of step 3.5 does the same for the hosts of the
\* new sets, and no step of any run (the reload from the cache included)
\* lowers the last_date of an entry.
C26_LastDateIsMax ==
    [][/\ DatesKept(pair_counts, pair_counts')
       /\ DatesKept(individual_counts, individual_counts')
       /\ DatesKept(gd_counts, gd_counts')
       /\ DatesKept(host_counts, host_counts')
       /\ \A s \in SetIds : MergedNow(s) =>
            LET noms == StepResult(s).nominations
                users == {noms[i].nominator_id : i \in 1..Len(noms)}
                duos == {p \in users \X users : p[1] < p[2]}
                date == SetDate(Ref(s))
            IN /\ DatesMerged(individual_counts, individual_counts', users, date)
               /\ DatesMerged(pair_counts, pair_counts', duos, date)
               /\ DatesMerged(gd_counts, gd_counts', Guests(s), date)
       /\ runs' = runs + 1 =>
            LET base == Restore(LoadCache(file).value).host_counts
            IN \A h \in DOMAIN host_counts' :
                 host_counts'[h].last_date =
                   MaxDate(EntryOf(base, h).last_date,
                           MaxOf({SetDate(Ref(s)) :
                                    s \in {t \in new_sets' : Ref(t).user_id = h}}))
      ]_vars

\* set 102 (date 5) was merged before set 101 (date 3): their common nominator
\* 7 keeps the date of 102
C26_Witness ==
    /\ merge_order = <<102, 101>>
    /\ individual_counts[7].count = 2
    /\ individual_counts[7].last_date = 5

-----------------------------------------------------------------------------
(* Properties of the leaderboards *)

DuoBuilt == b_pc = "done" /\ b_in.kind = "duo"

\* the entries of the duo leaderboard that show the two names of pair key k
EntriesOf(k) ==
    {i \in 1..Len(b_board) :
        {b_board[i].bn1_name, b_board[i].bn2_name} =
          {NameOf(b_names, k[1]), NameOf(b_names, k[2])}}

\* C27: the duo leaderboard has exactly one entry for each pair of
\* pair_counts, and the entry shows first the name that is lower when case is
\* ignored, whichever of the two users has the smaller id and wherever the
\* pair stands in the dict.
C27_DuoSymmetry ==
    DuoBuilt =>
        /\ Len(b_board) = Len(b_in.items)
        /\ \A n \in 1..Len(b_in.items) :
              /\ Cardinality(EntriesOf(b_in.items[n].key)) = 1
              /\ \A i \in EntriesOf(b_in.items[n].key) :
                    StrLess(StrLower(b_board[i].bn1_name),
                            StrLower(b_board[i].bn2_name))

\* the pair (7, 8) is on the leaderboard; user 7 is "B" and user 8 is "a",
\* and the entry shows "a" first
C27_Witness ==
    /\ DuoBuilt
    /\ b_names[7] = <<"B">>
    /\ b_names[8] = <<"a">>
    /\ \E i \in 1..Len(b_board) :
          b_board[i].bn1_name = <<"a">> /\ b_board[i].bn2_name = <<"B">>

UsersBuilt == b_pc = "done" /\ b_in.kind \in {"individual", "gd", "host"}

\* (name1, name2) of entry i, case ignored, is at most that of entry j
DuoNamesLeq(i, j) ==
    LET a1 == StrLower(b_board[i].bn1_name)
        b1 == StrLower(b_board[j].bn1_name)
        a2 == StrLower(b_board[i].bn2_name)
        b2 == StrLower(b_board[j].bn2_name)
    IN \/ StrLess(a1, b1)
       \/ a1 = b1 /\ (a2 = b2 \/ StrLess(a2, b2))

\* the individual, GD and host leaderboards: descending count, then
\* ascending username
C28_UserBoardsSorted ==
    UsersBuilt =>
        \A i, j \in 1..Len(b_board) : i < j =>
            /\ b_board[i].count >= b_board[j].count
            /\ b_board[i].count = b_board[j].count =>
                  StrLess(b_board[i].username, b_board[j].username)

\* the duo leaderboard: descending count
C28_DuoByCount ==
    DuoBuilt =>
        \A i, j \in 1..Len(b_board) : i < j => b_board[i].count >= b_board[j].count

\* the duo leaderboard: entries of equal count by ascending names, case ignored
C28_DuoTieBreak ==
    DuoBuilt =>
        \A i, j \in 1..Len(b_board) :
            (i < j /\ b_board[i].count = b_board[j].count) => DuoNamesLeq(i, j)

\* C28: each of the four leaderboards is in descending order of count, and
\* entries of equal count are in ascending order of name; on the duo
\* leaderboard the names of the pair are compared with case ignored.
C28_BoardsSorted == C28_UserBoardsSorted /\ C28_DuoByCount /\ C28_DuoTieBreak

-----------------------------------------------------------------------------
(* Properties of the name resolution *)

\* C29: the dict resolve_users_parallel returns has exactly the requested ids
\* other than 0 as keys; an id whose lookup of this call did not answer 200
\* with a username is mapped to 'User_<id>', and the call still returns; no
\* lookup is made for id 0 nor for an id USER_CACHE held when the call
\* started.
C29_ResolveTotal ==
    /\ r_pc \in {"idle", "pool", "returned"}
    /\ r_pc = "returned" =>
          /\ r_ret.done
          /\ DOMAIN r_ret.value = r_ids \ {0}
          /\ \A uid \in DOMAIN r_futures :
                r_futures[uid].resp # "200" => r_ret.value[uid] = Placeholder(uid)
    /\ DOMAIN r_futures \subseteq r_ids \ ({0} \cup r_known)

\* the second call asks for 0, for 7 (cached by the first call) and for 8,
\* whose lookup times out
C29_Witness ==
    /\ r_calls = 2
    /\ r_pc = "returned"
    /\ r_ids = {0, 7, 8}
    /\ r_known = {7}
    /\ r_futures[8].resp = "timeout"
    /\ r_ret.value = [uid \in {7, 8} |-> IF uid = 7 THEN <<"a">> ELSE Placeholder(8)]

-----------------------------------------------------------------------------
(* Properties of the per-BN leaderboard *)

\* the sets of the listing hosted by mapper u
SetsOf(u) == {g_sets[n] : n \in {k \in 1..Len(g_sets) : g_sets[k].user_id = u}}

\* mapper u created a difficulty of mode m in the set
Created(u, bset, m) ==
    \E i \in 1..Len(bset.beatmaps) :
        bset.beatmaps[i].user_id = u /\ bset.beatmaps[i].mode = m

-----------------------------------------------------------------------------
(* Properties of the job table *)

\* C31: once cancel_scan has set a job's cancel event and its status to
\* 'cancelled', the status of the job does not become 'done' afterwards and
\* no result is stored for it, whatever the interleaving of the request
\* thread with the job thread.
C31_CancelledNeverDone ==
    [][\A j \in DOMAIN JOBS :
         (JOBS[j].has_event /\ j_event[j] /\ JOBS[j].status = "cancelled") =>
            /\ (j \in DOMAIN JOBS' => JOBS'[j].status # "done")
            /\ (j \in DOMAIN RESULTS_CACHE' => j \in DOMAIN RESULTS_CACHE)]_vars

\* the same for a job thread that makes its cancel test only after
\* cancel_scan has run: it takes the cancelled branch
C31_TestAfterCancel ==
    [][\A j \in DOMAIN j_pc :
         (j_pc[j] = "test" /\ j_event[j]) =>
            (j_pc'[j] # "test" => j_pc'[j] = "w_cancelled")]_vars

\* C33: cleanup_old_entries never removes the JOBS entry of a job whose
\* thread is still running, so the final status write of run_scan_job finds
\* the entry and every started job reaches a terminal status.
C33_RunningJobsKept ==
    \A j \in DOMAIN j_pc :
        /\ j_pc[j] \notin {"nothread", "ended", "died"} => j \in DOMAIN JOBS
        /\ j_pc[j] # "died"
        /\ (j_pc[j] = "ended" /\ j \in DOMAIN JOBS) =>
              JOBS[j].status \in {"done", "error", "cancelled"}

\* a job that ended within CACHE_TTL_SECONDS of its start has its entry and a
\* terminal status
C33_YoungJobsKept ==
    \A j \in DOMAIN j_pc :
        (j \in DOMAIN j_event /\ j_clock <= CACHE_TTL_SECONDS) =>
            /\ j \in DOMAIN JOBS
            /\ j_pc[j] # "died"
            /\ j_pc[j] = "ended" => JOBS[j].status \in {"done", "error", "cancelled"}

\* with no execution in flight the flag is down, after every outcome
C32_FlagDownWhenQuiet ==
    (\A t \in DOMAIN gs_pc : gs_pc[t].at \in {"check", "skipped", "ended"})
        => ~gs_running

\* C32: at most one execution of scan_logic.global_bn_duo_scan at a time,
\* for every interleaving of the scheduler job with the trigger requests;
\* GLOBAL_SCAN_STATUS['running'] is true while one executes and false again
\* once it has ended, whatever its outcome.
C32_OneGlobalScan ==
    /\ Cardinality(Executing) <= 1
    /\ Executing # {} => gs_running
    /\ C32_FlagDownWhenQuiet

-----------------------------------------------------------------------------
(* Properties of process_set *)

Repeated(gds) ==
    \E i, j \in 1..Len(gds) : i < j /\ gds[i].mapper_id = gds[j].mapper_id

\* C34: for one set process_set returns at most one GD entry per guest
\* mapper, however many difficulties the mapper has in the set, in
\* gder_logic and in scan_logic; no entry is for the host.
C34_UniqueGders ==
    ps_out.done =>
        /\ ~Repeated(ps_out.gds)
        /\ \A i \in 1..Len(ps_out.gds) : ps_out.gds[i].mapper_id # ps_host

\* gder_logic.process_set does so, and scan_logic.process_set never returns
\* the host
C34_GderLogicUnique ==
    ps_out.done =>
        /\ ps_module = "gder_logic" => ~Repeated(ps_out.gds)
        /\ \A i \in 1..Len(ps_out.gds) : ps_out.gds[i].mapper_id # ps_host

-----------------------------------------------------------------------------
(* Properties of the duo entries and of the snapshot *)

\* the nomination modes of user u as the duo block reads them
NomModes(u) ==
    IF u \in DOMAIN b_in.indiv THEN SortedModes(b_in.indiv[u].mode_counts) ELSE <<>>

\* entry i shows for each of its two names the modes of the user so named
ModesFollowNames(i, k) ==
    \A u \in {k[1], k[2]} :
        /\ b_board[i].bn1_name = NameOf(b_names, u) => b_board[i].bn1_modes = NomModes(u)
        /\ b_board[i].bn2_name = NameOf(b_names, u) => b_board[i].bn2_modes = NomModes(u)

\* C35: in every duo entry bn1_modes is the set of nomination modes of the
\* user whose name is bn1_name, and bn2_modes that of the user named
\* bn2_name, also for a pair whose names are swapped for display.
C35_ModesMatchNames ==
    DuoBuilt =>
        \A n \in 1..Len(b_in.items) :
            \A i \in EntriesOf(b_in.items[n].key) :
                ModesFollowNames(i, b_in.items[n].key)

\* for a pair shown in the order of its ids the modes are those of the names
C35_UnswappedMatch ==
    DuoBuilt =>
        \A n \in 1..Len(b_in.items) :
            \A i \in EntriesOf(b_in.items[n].key) :
                b_board[i].bn1_name = NameOf(b_names, b_in.items[n].key[1])
                    => ModesFollowNames(i, b_in.items[n].key)

\* the leaderboard the block builds when the dict it reads holds the same
\* entries inserted in the opposite order
BoardOfReversed ==
    IF b_in.kind = "duo"
    THEN DuoLeaderboard(Reverse(b_in.items), b_in.indiv, b_names)
    ELSE UserLeaderboard(Reverse(b_in.items), b_names)

\* C37: two runs that end with equal counters and equal resolved names write
\* the same four leaderboards, entry by entry and in the same order, whatever
\* the order in which the entries were inserted into the counters.
C37_SnapshotDeterministic ==
    b_pc = "done" => b_board = BoardOfReversed

\* the individual, GD and host leaderboards do not depend on the insertion
\* order, and the duo leaderboard has the same entries in both orders
C37_SameEntries ==
    b_pc = "done" =>
        /\ Range(b_board) = Range(BoardOfReversed)
        /\ UsersBuilt => b_board = BoardOfReversed

-----------------------------------------------------------------------------
(* Properties of USER_CACHE *)

\* C36: once USER_CACHE maps a user id to a name obtained from a successful
\* lookup, no later or concurrent resolve_users_parallel call replaces the
\* name with the placeholder 'User_<id>' or changes it.
C36_ResolvedNameStable ==
    [][\A uid \in DOMAIN USER_CACHE :
         USER_CACHE[uid] = Username(uid) =>
            /\ uid \in DOMAIN USER_CACHE'
            /\ USER_CACHE'[uid] = USER_CACHE[uid]]_vars

\* no entry of USER_CACHE is ever removed
C36_NeverInvalidated ==
    [][DOMAIN USER_CACHE \subseteq DOMAIN USER_CACHE']_vars

-----------------------------------------------------------------------------
(* Properties of the list of the corpus search *)

\* C39: all_sets of search_ranked_beatmapsets holds each set id at most once,
\* also when the same set is returned on several pages, under several
\* statuses or twice on one page; so the run submits one deep-fetch per set.
C39_NoSetTwice ==
    \A i, j \in 1..Len(s_all) : i # j => s_all[i] # s_all[j]

\* under the second status the page <<2, 2>> has been answered twice, and
\* all_sets holds the set once
C39_Witness ==
    /\ s_status = 2
    /\ s_page = 2
    /\ s_all = <<2>>

-----------------------------------------------------------------------------
(* Properties of the cache round trip *)

\* what the next run restores from file f
Reloaded(f) == Restore(LoadCache(f).value)

\* C38: the state in memory at the end of a run, written with _save_cache and
\* read back with _load_cache and the restore step, is the state that was
\* saved: scanned_ids, the four counters with their pair and integer keys,
\* counts, dates and mode counts, and user_modes.
C38_CacheRoundTrip ==
    /\ pc = "save" => Reloaded(SaveCache(CacheData(Mem))) = Mem
    /\ (pc = "idle" /\ result = "ok") => Reloaded(file) = Mem

\* a run has saved pairs, guests and a host whose default 'osu' credit was
\* taken back
C38_Witness ==
    /\ pc = "idle"
    /\ result = "ok"
    /\ file = SaveCache(CacheData(Mem))
    /\ DOMAIN pair_counts # {}
    /\ DOMAIN gd_counts # {}
    /\ \E h \in DOMAIN host_counts :
          /\ "osu" \in DOMAIN host_counts[h].mode_counts
          /\ host_counts[h].mode_counts["osu"] = 0
    /\ \E u \in DOMAIN user_modes : Cardinality(user_modes[u]) = 2

-----------------------------------------------------------------------------
(* The files of a run that ends with an error *)

\* the three error results of C40
QuietErrors == {"error_auth", "error_nosets", "error_nodata"}

\* C40: a step of global_bn_duo_scan that ends the run with 'Authentication
\* failed', 'No ranked beatmapsets found' or 'No data found' changes neither
\* the cache file nor the snapshot file, and a run that ended with one of the
\* last two wrote the cache no time and left both files as they were when the
\* run began.
C40_ErrorLeavesFiles ==
    /\ [][(pc' = "idle" /\ result' \in QuietErrors)
            => (file' = file /\ lb_file' = lb_file)]_vars
    /\ []((pc = "idle" /\ result \in {"error_nosets", "error_nodata"})
            => (saves = 0 /\ file = prev_file /\ lb_file = prev_lb))

\* a run over the set without a user_id ended with 'No data found' after both
\* pools had fetched the set, and no file was created
C40_Witness ==
    /\ pc = "idle"
    /\ result = "error_nodata"
    /\ cur_sets = {HostlessSet}
    /\ fetches[HostlessSet] = 2
    /\ file = MissingFile
    /\ lb_file = MissingFile

\* a run ended with 'No ranked beatmapsets found' next to an existing snapshot
C40_NoSetsReached ==
    /\ pc = "idle"
    /\ result = "error_nosets"
    /\ runs = 2
    /\ file # MissingFile
    /\ lb_file # MissingFile
    /\ file = prev_file
    /\ lb_file = prev_lb

=============================================================================
